---- MODULE Spec2Model ----
(***************************************************************************)
(* Model of the structure analyser of splitter_book                        *)
(* (backend/ai_structure.py, class AIStructureAnalyzer).                   *)
(*                                                                         *)
(* Text is modelled as Python models it: a str is a sequence of Unicode    *)
(* code points.  The alphabet of the model is ASCII, Latin-1 and the       *)
(* Cyrillic block (U+0400..U+04FF), which holds every character of the     *)
(* keyword and pattern tables of the analyser.                             *)
(***************************************************************************)
EXTENDS Integers, Sequences, FiniteSets, TLC

\* pc: "ready" while the call waits to run, "done" when it has returned
\* op, args: the method called and its arguments
\* ret: what the call returned, or that it raised
\* valid_sections: the local list valid_sections of
\*   _validate_and_fix_ai_structure when its loop has ended (line 626)
\* called: the methods analyze_structure has called, in call order, the
\*   request to the oracle ("oracle") among them
\* frame: the local variables of a method that runs in several steps
\* text_files, structure_files: temp/<book_id>_text.json and
\*   temp/<book_id>_structure.json, per book_id
\* output_files: the directory output/<book_id>, per book_id
\* reqs: the requests the HTTP server is handling
VARIABLES pc, op, args, ret, valid_sections, called,
          frame, text_files, structure_files, output_files, reqs

vars == <<pc, op, args, ret, valid_sections, called,
          frame, text_files, structure_files, output_files, reqs>>

\* the part of the state a call of a method of the analyser leaves alone
storage == <<frame, text_files, structure_files, output_files, reqs>>

(***************************************************************************)
(* Characters: str.isupper, str.islower, str.lower, \s, \d, \w             *)
(***************************************************************************)

\* Python's whitespace (str.strip(), str.isspace(), regex \s) below U+0500
IsSpace(c) == (9 <= c /\ c <= 13) \/ (28 <= c /\ c <= 32) \/ c = 133 \/ c = 160

\* regex \d
IsDigit(c) == 48 <= c /\ c <= 57

\* c.isupper() for one character
IsUpper(c) ==
    \/ (65 <= c /\ c <= 90)
    \/ (1024 <= c /\ c <= 1071)
    \/ (((1162 <= c /\ c <= 1215) \/ (1232 <= c /\ c <= 1279)) /\ c % 2 = 0)

\* c.islower() for one character
IsLower(c) ==
    \/ (97 <= c /\ c <= 122)
    \/ (1072 <= c /\ c <= 1119)
    \/ (((1162 <= c /\ c <= 1215) \/ (1232 <= c /\ c <= 1279)) /\ c % 2 = 1)

\* regex \w: letters, digits and the underscore
IsWord(c) == IsUpper(c) \/ IsLower(c) \/ IsDigit(c) \/ c = 95

\* c.lower() for one character
LowerChar(c) ==
    IF 65 <= c /\ c <= 90 THEN c + 32
    ELSE IF 1024 <= c /\ c <= 1039 THEN c + 80
    ELSE IF 1040 <= c /\ c <= 1071 THEN c + 32
    ELSE IF ((1162 <= c /\ c <= 1215) \/ (1232 <= c /\ c <= 1279)) /\ c % 2 = 0 THEN c + 1
    ELSE c

\* str.lower()
Lower(s) == [i \in 1..Len(s) |-> LowerChar(s[i])]

(***************************************************************************)
(* Strings: strip, split, in, startswith, endswith                         *)
(***************************************************************************)

\* the positions of s that hold no whitespace
Inked(s) == {i \in 1..Len(s) : ~IsSpace(s[i])}

\* str.strip(): from the first to the last character that is not whitespace
Strip(s) ==
    LET inked == Inked(s) IN
    IF inked = {} THEN <<>>
    ELSE SubSeq(s, CHOOSE i \in inked : \A j \in inked : i <= j,
                   CHOOSE i \in inked : \A j \in inked : j <= i)

\* s.startswith(w)
StartsWith(s, w) == Len(w) <= Len(s) /\ SubSeq(s, 1, Len(w)) = w

\* s.endswith(w)
EndsWith(s, w) == Len(w) <= Len(s) /\ SubSeq(s, Len(s) - Len(w) + 1, Len(s)) = w

\* w in s
Contains(s, w) ==
    \E i \in 1..(Len(s) - Len(w) + 1) : SubSeq(s, i, i + Len(w) - 1) = w

\* c in s, for one character
HasChar(s, c) == \E i \in 1..Len(s) : s[i] = c

\* s.endswith(tuple of one-character strings)
EndsWithAny(s, cs) == s # <<>> /\ s[Len(s)] \in cs

\* the positions of the separators of text, with one before its first
\* character and one after its last
Breaks(text) == {0, Len(text) + 1} \cup {i \in 1..Len(text) : text[i] = 10}

\* page_text.split('\n'): the pieces between successive separators, in order
Split(text) ==
    LET breaks == Breaks(text)
        cut(k) == CHOOSE i \in breaks : Cardinality({j \in breaks : j < i}) = k
    IN  [k \in 1..(Cardinality(breaks) - 1) |->
            SubSeq(text, cut(k - 1) + 1, cut(k) - 1)]

(***************************************************************************)
(* Regular expressions, as re.match runs them: anchored at the start, the  *)
(* pattern a sequence of elements, each tried at every length it can take. *)
(***************************************************************************)

Lit(w) == [kind |-> "lit", text |-> w, class |-> "none"]
Plus(c) == [kind |-> "plus", text |-> <<>>, class |-> c]
Star(c) == [kind |-> "star", text |-> <<>>, class |-> c]
AtEnd == [kind |-> "end", text |-> <<>>, class |-> "none"]

\* membership of a character in a character class; ic is re.IGNORECASE
InClass(c, class, ic) ==
    CASE class = "space" -> IsSpace(c)
      [] class = "digit" -> IsDigit(c)
      [] class = "any" -> c # 10
      [] class = "roman" ->
            \/ c \in {73, 86, 88}
            \/ (ic /\ c \in {105, 118, 120})
      [] class = "caps_word_space" ->
            (1040 <= c /\ c <= 1071) \/ c = 1025 \/ IsWord(c) \/ IsSpace(c)
      [] class = "cyrillic_space" ->
            (1040 <= c /\ c <= 1103) \/ c = 1025 \/ c = 1105 \/ IsSpace(c)
      [] OTHER -> FALSE

\* the literal w at position i of s
LitAt(s, i, w, ic) ==
    /\ i + Len(w) - 1 <= Len(s)
    /\ \A j \in 1..Len(w) :
          IF ic THEN LowerChar(s[i + j - 1]) = LowerChar(w[j])
                ELSE s[i + j - 1] = w[j]

\* the characters i .. i+n-1 of s all belong to the class
RunAt(s, i, n, class, ic) ==
    /\ i + n - 1 <= Len(s)
    /\ \A j \in i..(i + n - 1) : InClass(s[j], class, ic)

RECURSIVE MatchFrom(_, _, _, _, _)
MatchFrom(pat, k, s, i, ic) ==
    IF k > Len(pat) THEN TRUE
    ELSE LET e == pat[k] IN
        CASE e.kind = "lit" ->
                LitAt(s, i, e.text, ic) /\ MatchFrom(pat, k + 1, s, i + Len(e.text), ic)
          [] e.kind = "plus" ->
                \E n \in 1..(Len(s) - i + 1) :
                    RunAt(s, i, n, e.class, ic) /\ MatchFrom(pat, k + 1, s, i + n, ic)
          [] e.kind = "star" ->
                \E n \in 0..(Len(s) - i + 1) :
                    RunAt(s, i, n, e.class, ic) /\ MatchFrom(pat, k + 1, s, i + n, ic)
          [] e.kind = "end" ->
                (i = Len(s) + 1 \/ (i = Len(s) /\ s[i] = 10))
                /\ MatchFrom(pat, k + 1, s, i, ic)
          [] OTHER -> FALSE

\* re.match(pattern, s) and re.match(pattern, s, re.IGNORECASE)
ReMatch(pat, s, ic) == MatchFrom(pat, 1, s, 1, ic)

(***************************************************************************)
(* The analyser's tables (AIStructureAnalyzer.__init__)                    *)
(***************************************************************************)
\* 'кіріспе'
W_kirispe == <<1082, 1110, 1088, 1110, 1089, 1087, 1077>>
\* 'қорытынды'
W_qorytyndy == <<1179, 1086, 1088, 1099, 1090, 1099, 1085, 1076, 1099>>
\* 'сөз'
W_soz == <<1089, 1257, 1079>>
\* 'сөздер'
W_sozder == <<1089, 1257, 1079, 1076, 1077, 1088>>
\* 'бөлім'
W_bolim == <<1073, 1257, 1083, 1110, 1084>>
\* 'тарау'
W_tarau == <<1090, 1072, 1088, 1072, 1091>>
\* 'алғы'
W_algy == <<1072, 1083, 1171, 1099>>
\* 'глава'
W_glava == <<1075, 1083, 1072, 1074, 1072>>
\* 'ата'
W_ata == <<1072, 1090, 1072>>
\* 'ана'
W_ana == <<1072, 1085, 1072>>
\* 'неке'
W_neke == <<1085, 1077, 1082, 1077>>
\* 'хадис'
W_hadis == <<1093, 1072, 1076, 1080, 1089>>
\* 'пайғамбар'
W_paygambar == <<1087, 1072, 1081, 1171, 1072, 1084, 1073, 1072, 1088>>
\* 'ислам'
W_islam == <<1080, 1089, 1083, 1072, 1084>>
\* 'құран'
W_quran == <<1179, 1201, 1088, 1072, 1085>>
\* 'введение'
W_vvedenie == <<1074, 1074, 1077, 1076, 1077, 1085, 1080, 1077>>
\* 'заключение'
W_zaklyuchenie == <<1079, 1072, 1082, 1083, 1102, 1095, 1077, 1085, 1080, 1077>>
\* 'вступление'
W_vstuplenie == <<1074, 1089, 1090, 1091, 1087, 1083, 1077, 1085, 1080, 1077>>
\* 'заключительное слово'
W_zaklyuchitelnoe_slovo == <<1079, 1072, 1082, 1083, 1102, 1095, 1080, 1090, 1077, 1083, 1100, 1085, 1086, 1077, 32, 1089, 1083, 1086, 1074, 1086>>

\* self.section_keywords
section_keywords ==
    << W_kirispe, W_qorytyndy,
       W_qorytyndy \o <<32>> \o W_soz, W_qorytyndy \o <<32>> \o W_sozder,
       W_qorytyndy \o <<32>> \o W_bolim, W_qorytyndy \o <<32>> \o W_tarau,
       W_glava, W_bolim, W_tarau,
       W_vvedenie, W_zaklyuchenie, W_vstuplenie, W_zaklyuchitelnoe_slovo >>

\* self.heading_patterns, in the order of the list
heading_patterns ==
    << <<Lit(W_kirispe), Star("space"), AtEnd>>,
       <<Lit(W_qorytyndy), Star("space"), AtEnd>>,
       <<Lit(W_qorytyndy), Plus("space"), Lit(W_soz), Star("space"), AtEnd>>,
       <<Lit(W_qorytyndy), Plus("space"), Lit(W_sozder), Star("space"), AtEnd>>,
       <<Lit(W_qorytyndy), Plus("space"), Lit(W_bolim), Star("space"), AtEnd>>,
       <<Lit(W_qorytyndy), Plus("space"), Lit(W_tarau), Star("space"), AtEnd>>,
       <<Lit(W_algy), Plus("space"), Lit(W_soz), Star("space"), AtEnd>>,
       <<Plus("digit"), Lit(<<46>>), Plus("space"), Star("any"), AtEnd>>,
       <<Plus("digit"), Plus("space"), Star("any"), AtEnd>>,
       <<Lit(W_glava), Plus("space"), Plus("digit"), Star("any"), AtEnd>>,
       <<Lit(W_bolim), Plus("space"), Plus("digit"), Star("any"), AtEnd>>,
       <<Lit(W_tarau), Plus("space"), Plus("digit"), Star("any"), AtEnd>>,
       <<Plus("roman"), Lit(<<46>>), Plus("space"), Star("any"), AtEnd>>,
       <<Plus("roman"), Plus("space"), Star("any"), AtEnd>>,
       <<Plus("caps_word_space"), AtEnd>>,
       <<Star("any"), Lit(W_ata), Plus("space"), Lit(W_ana), Star("any")>>,
       <<Star("any"), Lit(W_neke), Star("any")>>,
       <<Star("any"), Lit(W_hadis), Star("any")>>,
       <<Star("any"), Lit(W_paygambar), Star("any")>>,
       <<Star("any"), Lit(W_islam), Star("any")>>,
       <<Star("any"), Lit(W_quran), Star("any")>> >>

(***************************************************************************)
(* The heading classifier                                                  *)
(***************************************************************************)

\* sum(1 for c in line if c.isupper())
UpperCount(line) == Cardinality({i \in 1..Len(line) : IsUpper(line[i])})

\* _is_heading_by_style(line)
_is_heading_by_style(line) ==
    IF Len(line) >= 25 THEN FALSE
    ELSE IF Len(line) >= 5 /\ 10 * UpperCount(line) > 8 * Len(line) THEN TRUE
    ELSE /\ IsUpper(line[1])
         /\ Len(line) >= 3
         /\ Len(line) <= 20
         /\ ReMatch(<<Plus("cyrillic_space"), AtEnd>>, line, FALSE)
         /\ ~EndsWithAny(line, {46, 33, 63, 58, 59, 44, 34, 39, 171, 187})
         /\ ~HasChar(line, 63)
         /\ ~HasChar(line, 33)
         /\ ~HasChar(line, 58)
         /\ ~HasChar(line, 59)
         /\ ~HasChar(line, 44)

\* the inclusion rules of _is_heading, for a stripped line that passed
\* every exclusion rule
HeadingIncluded(line) ==
    \/ \E k \in 1..Len(section_keywords) : Contains(Lower(line), section_keywords[k])
    \/ \E k \in 1..Len(heading_patterns) : ReMatch(heading_patterns[k], line, TRUE)
    \/ _is_heading_by_style(line)

\* a variant of HeadingExcluded without the rule on the final full stop;
\* C24_ExclusionDominates does not hold of it
HeadingExcludedButFullStop(line) ==
    \/ Len(line) > 30
    \/ Contains(line, <<32, 32>>) \/ HasChar(line, 9)
    \/ ((\E i \in 1..Len(line) : IsDigit(line[i])) /\ Len(line) > 10)
    \/ IsLower(line[1])
    \/ HasChar(line, 44) \/ HasChar(line, 58) \/ HasChar(line, 59)
    \/ HasChar(line, 34) \/ HasChar(line, 39) \/ HasChar(line, 171) \/ HasChar(line, 187)
    \/ HasChar(line, 63)
    \/ HasChar(line, 33)

\* the exclusion rules of _is_heading, for a stripped line
HeadingExcluded(line) ==
    \/ Len(line) > 30
    \/ Contains(line, <<32, 32>>) \/ HasChar(line, 9)
    \/ (EndsWith(line, <<46>>) /\ ~EndsWith(line, <<46, 46, 46>>))
    \/ ((\E i \in 1..Len(line) : IsDigit(line[i])) /\ Len(line) > 10)
    \/ IsLower(line[1])
    \/ HasChar(line, 44) \/ HasChar(line, 58) \/ HasChar(line, 59)
    \/ HasChar(line, 34) \/ HasChar(line, 39) \/ HasChar(line, 171) \/ HasChar(line, 187)
    \/ HasChar(line, 63)
    \/ HasChar(line, 33)

\* _is_heading(line)
_is_heading(line) ==
    LET stripped == Strip(line) IN
    IF line = <<>> \/ Len(stripped) < 3 THEN FALSE
    ELSE IF HeadingExcluded(stripped) THEN FALSE
    ELSE HeadingIncluded(stripped)

\* _classify_heading(heading)
_classify_heading(heading) ==
    IF Contains(Lower(heading), W_kirispe) THEN "introduction"
    ELSE IF Contains(Lower(heading), W_qorytyndy) THEN "conclusion"
    ELSE IF ReMatch(<<Plus("digit"), Lit(<<46>>)>>, heading, FALSE) THEN "numbered_section"
    ELSE IF ReMatch(<<Plus("roman"), Lit(<<46>>)>>, heading, FALSE) THEN "roman_section"
    ELSE "regular_section"

\* _get_heading_level(heading)
_get_heading_level(heading) ==
    IF ReMatch(<<Plus("digit"), Lit(<<46>>)>>, heading, FALSE) THEN 1
    ELSE IF ReMatch(<<Plus("digit"), Lit(<<46>>), Plus("digit")>>, heading, FALSE) THEN 2
    ELSE IF ReMatch(<<Plus("digit"), Lit(<<46>>), Plus("digit"), Lit(<<46>>), Plus("digit")>>,
                    heading, FALSE) THEN 3
    ELSE 1

\* _is_regular_text(line)
_is_regular_text(line) ==
    \/ Contains(line, <<32, 32>>)
    \/ EndsWithAny(line, {46, 33, 63, 58, 59, 44})
    \/ (line # <<>> /\ IsLower(line[1]))

(***************************************************************************)
(* Section names the analyser generates                                    *)
(***************************************************************************)

\* str(n) for n >= 0
RECURSIVE IntStr(_)
IntStr(n) == IF n < 10 THEN <<48 + n>> ELSE IntStr(n \div 10) \o <<48 + (n % 10)>>

\* "Кіріспе"
N_Kirispe == <<1050, 1110, 1088, 1110, 1089, 1087, 1077>>
\* "Қорытынды"
N_Qorytyndy == <<1178, 1086, 1088, 1099, 1090, 1099, 1085, 1076, 1099>>
\* "Бөлім"
N_Bolim == <<1041, 1257, 1083, 1110, 1084>>
\* "Негізгі бөлім"
N_NegizgiBolim == <<1053, 1077, 1075, 1110, 1079, 1075, 1110, 32, 1073, 1257, 1083, 1110, 1084>>
\* " бөлімі"
N_bolimi == <<32, 1073, 1257, 1083, 1110, 1084, 1110>>

\* dict.get(key, default)
Get(d, key, default) == IF key \in DOMAIN d THEN d[key] ELSE default

Min(a, b) == IF a < b THEN a ELSE b
Max(a, b) == IF a > b THEN a ELSE b

(***************************************************************************)
(* The even partition: the loop shared by _analyze_by_meaning,             *)
(* _create_reasonable_structure_from_pages and _create_reasonable_structure*)
(***************************************************************************)

\* the loop "for i in range(num_sections)": i is 0-based, acc the ranges so far
RECURSIVE PartitionLoop(_, _, _, _, _)
PartitionLoop(total_pages, num_sections, i, current_page, acc) ==
    IF i >= num_sections THEN acc
    ELSE LET pages_per_section == total_pages \div num_sections
             remainder == total_pages % num_sections
             section_pages == pages_per_section + (IF i < remainder THEN 1 ELSE 0)
             end_page == Min(current_page + section_pages - 1, total_pages)
         IN  PartitionLoop(total_pages, num_sections, i + 1, end_page + 1,
                           Append(acc, [start_page |-> current_page, end_page |-> end_page]))

\* the page ranges of the num_sections sections, from page 1
EvenRanges(total_pages, num_sections) ==
    PartitionLoop(total_pages, num_sections, 0, 1, <<>>)

\* _calculate_optimal_sections(total_pages)
_calculate_optimal_sections(total_pages) ==
    IF total_pages <= 50 THEN 3
    ELSE IF total_pages <= 100 THEN 5
    ELSE IF total_pages <= 200 THEN 7
    ELSE IF total_pages <= 300 THEN 10
    ELSE Min(15, total_pages \div 20)

\* _generate_section_name(index, total_sections)
_generate_section_name(index, total_sections) ==
    IF index = 0 THEN N_Kirispe
    ELSE IF index = total_sections - 1 THEN N_Qorytyndy
    ELSE IntStr(index) \o <<46, 32>> \o N_Bolim

\* the sections list of _analyze_by_meaning(text_data)
MeaningSections(total_pages) ==
    LET optimal_sections == _calculate_optimal_sections(total_pages)
        r == EvenRanges(total_pages, optimal_sections)
    IN  [k \in 1..Len(r) |->
            [name |-> _generate_section_name(k - 1, optimal_sections),
             type |-> "auto_generated",
             start_page |-> r[k].start_page,
             end_page |-> r[k].end_page,
             level |-> 1]]

\* _analyze_by_meaning(text_data)
_analyze_by_meaning(text_data) ==
    [total_pages |-> Get(text_data, "total_pages", 1),
     sections |-> MeaningSections(Get(text_data, "total_pages", 1)),
     analysis_method |-> "by_meaning"]

\* the clamp of the section count in _create_reasonable_structure_from_pages
ClampSections(num_sections, total_pages) ==
    Max(2, Min(num_sections, total_pages \div 5))

\* _create_reasonable_structure_from_pages(pages, num_sections)
_create_reasonable_structure_from_pages(pages, num_sections) ==
    LET total_pages == Len(pages)
        n == ClampSections(num_sections, total_pages)
        r == EvenRanges(total_pages, n)
    IN  [k \in 1..Len(r) |->
            [name |-> IF k - 1 = 0 THEN N_Kirispe
                      ELSE IF k - 1 = n - 1 THEN N_Qorytyndy
                      ELSE N_Bolim \o <<32>> \o IntStr(k - 1),
             type |-> "section",
             start_page |-> r[k].start_page,
             end_page |-> r[k].end_page,
             level |-> 1]]

\* the section count _create_reasonable_structure derives from the page count
ReasonableCount(total_pages) ==
    IF total_pages <= 100 THEN 3
    ELSE IF total_pages <= 200 THEN 4
    ELSE IF total_pages <= 300 THEN 5
    ELSE IF total_pages <= 400 THEN 6
    ELSE Min(8, total_pages \div 60)

\* the sections list of _create_reasonable_structure(structure, total_pages)
_create_reasonable_structure(total_pages) ==
    LET num_sections == ReasonableCount(total_pages)
        r == EvenRanges(total_pages, num_sections)
    IN  [k \in 1..Len(r) |->
            [name |-> IF k - 1 = 0 THEN N_Kirispe \o N_bolimi
                      ELSE IF k - 1 = num_sections - 1 THEN N_Qorytyndy \o N_bolimi
                      ELSE IntStr(k - 1) \o <<46, 32>> \o N_NegizgiBolim,
             type |-> IF k - 1 = 0 THEN "introduction"
                      ELSE IF k - 1 = num_sections - 1 THEN "conclusion"
                      ELSE "chapter",
             start_page |-> r[k].start_page,
             end_page |-> r[k].end_page,
             level |-> 1]]

(***************************************************************************)
(* Page scanner and section boundary resolver                              *)
(***************************************************************************)

\* the value of end_page before _determine_section_endings sets it
None == "None"

\* _determine_section_endings(sections, total_pages)
\* a variant of _determine_section_endings in which a section ends on the
\* page the next one starts on; C4_SectionEndings does not hold of it
EndingsOnNextStart(sections, total_pages) ==
    [i \in 1..Len(sections) |->
        [sections[i] EXCEPT !.end_page =
            IF i < Len(sections) THEN sections[i + 1].start_page
            ELSE total_pages]]

_determine_section_endings(sections, total_pages) ==
    [i \in 1..Len(sections) |->
        [sections[i] EXCEPT !.end_page =
            IF i < Len(sections) THEN sections[i + 1].start_page - 1
            ELSE total_pages]]

\* the candidates of one page of the scan of _analyze_by_headings, line by line
RECURSIVE HeadingLines(_, _, _)
HeadingLines(page, lines, k) ==
    IF k > Len(lines) THEN <<>>
    ELSE LET line == Strip(lines[k]) IN
         (IF _is_heading(line)
          THEN << [name |-> line,
                   type |-> _classify_heading(line),
                   start_page |-> page.page_number,
                   end_page |-> None,
                   level |-> _get_heading_level(line)] >>
          ELSE <<>>) \o HeadingLines(page, lines, k + 1)

\* a variant of HeadingScan that visits the later pages first;
\* C23_ScanOrder does not hold of it
RECURSIVE HeadingScanLaterFirst(_, _, _)
HeadingScanLaterFirst(pages, lo, hi) ==
    IF lo > hi THEN <<>>
    ELSE IF lo = hi THEN HeadingLines(pages[lo], Split(pages[lo].text), 1)
    ELSE HeadingScanLaterFirst(pages, (lo + hi) \div 2 + 1, hi)
            \o HeadingScanLaterFirst(pages, lo, (lo + hi) \div 2)

\* the scan loop of _analyze_by_headings over the pages lo..hi, in page
\* order (the range is halved to keep the evaluation shallow)
RECURSIVE HeadingScan(_, _, _)
HeadingScan(pages, lo, hi) ==
    IF lo > hi THEN <<>>
    ELSE IF lo = hi THEN HeadingLines(pages[lo], Split(pages[lo].text), 1)
    ELSE HeadingScan(pages, lo, (lo + hi) \div 2)
            \o HeadingScan(pages, (lo + hi) \div 2 + 1, hi)

\* the condition of _aggressive_heading_search on a stripped line
AggressiveAccepts(line) ==
    /\ Len(line) > 5
    /\ Len(line) < 100
    /\ ~EndsWithAny(line, {46, 33, 63, 58, 59})
    /\ ~(line # <<>> /\ line[1] \in {32, 9})
    /\ ~_is_regular_text(line)

RECURSIVE AggressiveLines(_, _, _)
AggressiveLines(page, lines, k) ==
    IF k > Len(lines) THEN <<>>
    ELSE LET line == Strip(lines[k]) IN
         (IF AggressiveAccepts(line)
          THEN << [name |-> line,
                   type |-> "potential_heading",
                   start_page |-> page.page_number,
                   end_page |-> None,
                   level |-> 1] >>
          ELSE <<>>) \o AggressiveLines(page, lines, k + 1)

\* the scan loop of _aggressive_heading_search over the pages lo..hi
RECURSIVE AggressiveScan(_, _, _)
AggressiveScan(pages, lo, hi) ==
    IF lo > hi THEN <<>>
    ELSE IF lo = hi THEN AggressiveLines(pages[lo], Split(pages[lo].text), 1)
    ELSE AggressiveScan(pages, lo, (lo + hi) \div 2)
            \o AggressiveScan(pages, (lo + hi) \div 2 + 1, hi)

\* _aggressive_heading_search(pages)
_aggressive_heading_search(pages) ==
    _determine_section_endings(AggressiveScan(pages, 1, Len(pages)), Len(pages))

\* _analyze_by_headings(text_data)
\* a variant of _analyze_by_headings whose quality gate asks for 3 sections;
\* C7_EndToEndHeadingSplit does not hold of it
ByHeadingsGateOfThree(text_data) ==
    LET pages == Get(text_data, "pages", <<>>)
        sections == _determine_section_endings(HeadingScan(pages, 1, Len(pages)), Len(pages))
    IN  [total_pages |-> Get(text_data, "total_pages", 0),
         sections |-> IF Len(sections) < 3 THEN _aggressive_heading_search(pages)
                      ELSE sections,
         analysis_method |-> "by_headings"]

_analyze_by_headings(text_data) ==
    LET pages == Get(text_data, "pages", <<>>)
        sections == _determine_section_endings(HeadingScan(pages, 1, Len(pages)), Len(pages))
    IN  [total_pages |-> Get(text_data, "total_pages", 0),
         sections |-> IF Len(sections) < 2 THEN _aggressive_heading_search(pages)
                      ELSE sections,
         analysis_method |-> "by_headings"]

(***************************************************************************)
(* The validator of an external suggestion                                 *)
(***************************************************************************)

\* the 3-section default of _validate_and_fix_ai_structure (no sections)
DefaultSections(total_pages) ==
    << [name |-> N_Kirispe, type |-> "introduction",
        start_page |-> 1,
        end_page |-> Max(1, total_pages \div 4),
        level |-> 1],
       [name |-> N_NegizgiBolim, type |-> "chapter",
        start_page |-> Max(2, total_pages \div 4 + 1),
        end_page |-> Max(3, (total_pages * 3) \div 4),
        level |-> 1],
       [name |-> N_Qorytyndy, type |-> "conclusion",
        start_page |-> Max(4, (total_pages * 3) \div 4 + 1),
        end_page |-> total_pages,
        level |-> 1] >>

\* max_sections = min(8, total_pages // 20)
\* a variant of max_sections with one section per 10 pages; C9_SectionCap
\* does not hold of it
MaxSectionsPerTen(total_pages) == Min(8, total_pages \div 10)

max_sections(total_pages) == Min(8, total_pages \div 20)

\* sections[:max_sections]
Truncate(sections, total_pages) ==
    SubSeq(sections, 1, Min(Len(sections), Max(0, max_sections(total_pages))))

\* the range kept for one proposal: swap when inverted, then clamp
\* a variant of RepairRange that clamps without swapping; C10_RangeRepair
\* does not hold of it
RepairRangeNoSwap(section, total_pages) ==
    LET s0 == Get(section, "start_page", 1)
        e0 == Get(section, "end_page", total_pages)
        start_page == Max(1, Min(s0, total_pages))
        end_page == Max(start_page, Min(e0, total_pages))
    IN  [start_page |-> start_page, end_page |-> end_page]

RepairRange(section, total_pages) ==
    LET s0 == Get(section, "start_page", 1)
        e0 == Get(section, "end_page", total_pages)
        s1 == IF s0 > e0 THEN e0 ELSE s0
        e1 == IF s0 > e0 THEN s0 ELSE e0
        start_page == Max(1, Min(s1, total_pages))
        end_page == Max(start_page, Min(e1, total_pages))
    IN  [start_page |-> start_page, end_page |-> end_page]

\* the minimum-size test of the validator on a repaired range
\* a variant of LargeEnough that asks for more than 10 pages;
\* C11_MinimumSizeFilter does not hold of it
LargerThanTen(r) == r.end_page - r.start_page + 1 > 10

LargeEnough(r) == r.end_page - r.start_page + 1 >= 10

\* the loop "for i, section in enumerate(sections)": k is i + 1
RECURSIVE ValidLoop(_, _, _)
ValidLoop(sections, total_pages, k) ==
    IF k > Len(sections) THEN <<>>
    ELSE LET r == RepairRange(sections[k], total_pages) IN
         (IF LargeEnough(r)
          THEN << [name |-> Get(sections[k], "name", N_Bolim \o <<32>> \o IntStr(k)),
                   type |-> Get(sections[k], "type", "main_section"),
                   start_page |-> r.start_page,
                   end_page |-> r.end_page,
                   level |-> Get(sections[k], "level", 1)] >>
          ELSE <<>>) \o ValidLoop(sections, total_pages, k + 1)

\* valid_sections, before the coverage repair
ValidSections(sections, total_pages) ==
    ValidLoop(Truncate(sections, total_pages), total_pages, 1)

\* one step of the stable sort: x goes after every element whose key is <= its key
RECURSIVE InsertByStart(_, _)
InsertByStart(sorted, x) ==
    IF sorted = <<>> THEN <<x>>
    ELSE IF Head(sorted).start_page <= x.start_page
         THEN <<Head(sorted)>> \o InsertByStart(Tail(sorted), x)
         ELSE <<x>> \o sorted

\* sections.sort(key=lambda x: x["start_page"])
RECURSIVE SortByStart(_)
SortByStart(sections) ==
    IF sections = <<>> THEN <<>>
    ELSE InsertByStart(SortByStart(SubSeq(sections, 1, Len(sections) - 1)),
                       sections[Len(sections)])

SetMax(S) == CHOOSE m \in S : \A x \in S : x <= m

\* a variant of _ensure_complete_coverage that also moves the start of the
\* first section to page 1; C15_CoverageRepairFrame does not hold of it
CoverageFromPageOne(sections, total_pages) ==
    IF sections = <<>> THEN sections
    ELSE LET sorted == [SortByStart(sections) EXCEPT ![1].start_page = 1]
             missing_pages == {page \in 1..total_pages :
                                 ~\E k \in 1..Len(sorted) :
                                     sorted[k].start_page <= page /\ page <= sorted[k].end_page}
             n == Len(sorted)
         IN  IF missing_pages # {}
             THEN [sorted EXCEPT ![n].end_page = Max(sorted[n].end_page, SetMax(missing_pages))]
             ELSE sorted

\* _ensure_complete_coverage(sections, total_pages)
_ensure_complete_coverage(sections, total_pages) ==
    IF sections = <<>> THEN sections
    ELSE LET sorted == SortByStart(sections)
             missing_pages == {page \in 1..total_pages :
                                 ~\E k \in 1..Len(sorted) :
                                     sorted[k].start_page <= page /\ page <= sorted[k].end_page}
             n == Len(sorted)
         IN  IF missing_pages # {}
             THEN [sorted EXCEPT ![n].end_page = Max(sorted[n].end_page, SetMax(missing_pages))]
             ELSE sorted

\* the sections of _validate_and_fix_ai_structure(structure, total_pages)
_validate_and_fix_ai_structure(structure, total_pages) ==
    LET sections == Get(structure, "sections", <<>>) IN
    IF sections = <<>> THEN DefaultSections(total_pages)
    ELSE IF ValidSections(sections, total_pages) = <<>>
         THEN _create_reasonable_structure(total_pages)
         ELSE _ensure_complete_coverage(ValidSections(sections, total_pages), total_pages)

(***************************************************************************)
(* The entry point                                                         *)
(***************************************************************************)

\* a call that ends in an exception
Raised == [status |-> "raised", total_pages |-> 0, sections |-> <<>>,
           analysis_method |-> "none"]

\* a call that returns the Structure s
Returned(s) == [status |-> "returned", total_pages |-> s.total_pages,
                sections |-> s.sections, analysis_method |-> s.analysis_method]

\* _analyze_by_headings_improved(text_data): the scan runs, then line 753
\* reads num_sections, a name that is not bound in the method
_analyze_by_headings_improved(text_data) == Raised

\* _analyze_with_ai(text_data), the oracle's answer being reply
_analyze_with_ai(text_data, reply) ==
    LET total_pages == Len(Get(text_data, "pages", <<>>)) IN
    IF reply.kind = "structure"
    THEN Returned([total_pages |-> total_pages,
                   sections |-> _validate_and_fix_ai_structure(reply.structure, total_pages),
                   analysis_method |-> "ai_analysis"])
    ELSE _analyze_by_headings_improved(text_data)

\* a variant of analyze_structure that runs the heading analysis for a mode
\* it does not know; C17_UnsupportedMode does not hold of it
AnalyzeUnknownAsHeadings(text_data, split_mode, reply) ==
    CASE split_mode = "by_meaning" -> Returned(_analyze_by_meaning(text_data))
      [] split_mode = "ai_analysis" -> _analyze_by_headings_improved(text_data)
      [] split_mode = "auto" ->
            LET ai == _analyze_with_ai(text_data, reply)
                h == _analyze_by_headings(text_data)
            IN  IF ai.status = "returned" /\ Len(ai.sections) >= 2 THEN ai
                ELSE IF Len(h.sections) < 2
                     THEN Returned(_analyze_by_meaning(text_data))
                     ELSE Returned(h)
      [] OTHER -> Returned(_analyze_by_headings(text_data))

\* a variant of analyze_structure without the inner try of the auto mode: a
\* failure of _analyze_with_ai is raised; C19_OracleFailureRecovered does not
\* hold of it
AnalyzeOracleFailureRaised(text_data, split_mode, reply) ==
    CASE split_mode = "by_headings" -> Returned(_analyze_by_headings(text_data))
      [] split_mode = "by_meaning" -> Returned(_analyze_by_meaning(text_data))
      [] split_mode = "ai_analysis" -> _analyze_by_headings_improved(text_data)
      [] split_mode = "auto" ->
            LET ai == _analyze_with_ai(text_data, reply)
                h == _analyze_by_headings(text_data)
            IN  IF ai.status = "raised" THEN Raised
                ELSE IF Len(ai.sections) >= 2 THEN ai
                ELSE IF Len(h.sections) < 2
                     THEN Returned(_analyze_by_meaning(text_data))
                     ELSE Returned(h)
      [] OTHER -> Raised

\* a variant of analyze_structure whose auto mode accepts an oracle-assisted
\* result of one section; C21_AutoFallbackChain does not hold of it
AnalyzeAcceptsOneSection(text_data, split_mode, reply) ==
    CASE split_mode = "by_headings" -> Returned(_analyze_by_headings(text_data))
      [] split_mode = "by_meaning" -> Returned(_analyze_by_meaning(text_data))
      [] split_mode = "ai_analysis" -> _analyze_by_headings_improved(text_data)
      [] split_mode = "auto" ->
            LET ai == _analyze_with_ai(text_data, reply)
                h == _analyze_by_headings(text_data)
            IN  IF ai.status = "returned" /\ Len(ai.sections) >= 1 THEN ai
                ELSE IF Len(h.sections) < 2
                     THEN Returned(_analyze_by_meaning(text_data))
                     ELSE Returned(h)
      [] OTHER -> Raised

\* analyze_structure(text_data, split_mode)
analyze_structure(text_data, split_mode, reply) ==
    CASE split_mode = "by_headings" -> Returned(_analyze_by_headings(text_data))
      [] split_mode = "by_meaning" -> Returned(_analyze_by_meaning(text_data))
      [] split_mode = "ai_analysis" -> _analyze_by_headings_improved(text_data)
      [] split_mode = "auto" ->
            LET ai == _analyze_with_ai(text_data, reply)
                h == _analyze_by_headings(text_data)
            IN  IF ai.status = "returned" /\ Len(ai.sections) >= 2 THEN ai
                ELSE IF Len(h.sections) < 2
                     THEN Returned(_analyze_by_meaning(text_data))
                     ELSE Returned(h)
      [] OTHER -> Raised

\* the calls analyze_structure makes, in order; _analyze_with_ai asks the
\* oracle (line 519) and then validates its answer or, when there is none,
\* calls _analyze_by_headings_improved (line 561)
CallTrace(text_data, split_mode, reply) ==
    CASE split_mode = "by_headings" -> <<"_analyze_by_headings">>
      [] split_mode = "by_meaning" -> <<"_analyze_by_meaning">>
      [] split_mode = "ai_analysis" -> <<"_analyze_by_headings_improved">>
      [] split_mode = "auto" ->
            LET ai == _analyze_with_ai(text_data, reply)
                h == _analyze_by_headings(text_data)
            IN  <<"_analyze_with_ai", "oracle">>
                \o (IF reply.kind = "structure"
                    THEN <<"_validate_and_fix_ai_structure">>
                    ELSE <<"_analyze_by_headings_improved">>)
                \o (IF ai.status = "returned" /\ Len(ai.sections) >= 2 THEN <<>>
                    ELSE <<"_analyze_by_headings">>
                         \o (IF Len(h.sections) < 2 THEN <<"_analyze_by_meaning">>
                             ELSE <<>>))
      [] OTHER -> <<>>

(***************************************************************************)
(* Inputs: documents, suggestions, candidate lists                         *)
(***************************************************************************)

\* pages of a document enumerated text by text
MaxPages == 3
\* page count up to which every all-prose document is enumerated
MaxPlain == 12
\* proposals of an enumerated suggestion
MaxProposals == 2
\* candidates of an enumerated candidate list
MaxCands == 3
\* largest section count asked of the planner
MaxTarget == 7

\* one long, lowercase sentence with a comma:
\* "бұл кітапта көп мәселе бар, олардың бәрі маңызды."
L_prose == <<1073, 1201, 1083, 32, 1082, 1110, 1090, 1072, 1087, 1090, 1072, 32, 1082, 1257, 1087, 32, 1084, 1241, 1089, 1077, 1083, 1077, 32, 1073, 1072, 1088, 44, 32, 1086, 1083, 1072, 1088, 1076, 1099, 1187, 32, 1073, 1241, 1088, 1110, 32, 1084, 1072, 1187, 1099, 1079, 1076, 1099, 46>>
\* a title too long for the classifier, which the aggressive search accepts:
\* "Адамның мінезі мен оның өмірдегі орны туралы"
L_long == <<1040, 1076, 1072, 1084, 1085, 1099, 1187, 32, 1084, 1110, 1085, 1077, 1079, 1110, 32, 1084, 1077, 1085, 32, 1086, 1085, 1099, 1187, 32, 1257, 1084, 1110, 1088, 1076, 1077, 1075, 1110, 32, 1086, 1088, 1085, 1099, 32, 1090, 1091, 1088, 1072, 1083, 1099>>

\* the texts a page holds, lines separated by \n
T_prose == L_prose
T_intro == N_Kirispe \o <<10>> \o L_prose
T_concl == L_prose \o <<10, 32, 32>> \o N_Qorytyndy \o <<32, 10>> \o L_prose
T_two == N_Kirispe \o <<10>> \o N_Qorytyndy
T_long == L_long \o <<10>> \o L_prose

PageTexts == {T_prose, T_intro, T_concl, T_two, T_long}

SeqsUpTo(S, n) == UNION {[1..k -> S] : k \in 0..n}

\* the Document whose pages hold the given texts, numbered from 1
MakeDoc(texts) ==
    [total_pages |-> Len(texts),
     pages |-> [p \in 1..Len(texts) |-> [page_number |-> p, text |-> texts[p]]]]

\* a document of n pages of prose
PlainDoc(n) == MakeDoc([p \in 1..n |-> T_prose])

\* 120 pages of prose, "Кіріспе" heading page 1 and "Қорытынды" page 61
ScenarioDoc ==
    MakeDoc([p \in 1..120 |-> IF p = 1 THEN T_intro
                              ELSE IF p = 61 THEN T_concl ELSE T_prose])

\* the heading "Кіріспе" twice on page 1 and once more on page 3
RepeatDoc ==
    MakeDoc(<<N_Kirispe \o <<10>> \o N_Kirispe, T_prose, T_prose \o <<10>> \o N_Kirispe>>)

\* lines for the classifier: a numbering, a title, an ending
LinePrefixes ==
    {<<>>, <<32>>, <<49, 46, 32>>, <<49, 46, 50, 32>>, <<49, 46, 50, 46, 51, 32>>,
     <<73, 86, 46, 32>>, <<49, 50, 32>>}

\* "Кіріспе", "кіріспе", "ТАРАУ", "Бір", "Ab", "Неке туралы хадис"
LineTitles ==
    {N_Kirispe, Lower(N_Kirispe), <<1058, 1040, 1056, 1040, 1059>>, <<1041, 1110, 1088>>,
     <<65, 98>>,
     <<1053, 1077, 1082, 1077, 32, 1090, 1091, 1088, 1072, 1083, 1099, 32, 1093, 1072,
       1076, 1080, 1089>>}

\* nothing, ".", "...", ",", ":", ";", "?", "!", a quotation mark, two
\* spaces, a tab, a year, " мен оның орны" (a long tail)
LineEndings ==
    {<<>>, <<46>>, <<46, 46, 46>>, <<44>>, <<58>>, <<59>>, <<63>>, <<33>>, <<34>>, <<187>>,
     <<32, 32, 1072>>, <<9, 1072>>, <<32, 50, 48, 50, 52>>,
     <<32, 1084, 1077, 1085, 32, 1086, 1085, 1099, 1187, 32, 1086, 1088, 1085, 1099>>}

Lines == {p \o c \o e : p \in LinePrefixes, c \in LineTitles, e \in LineEndings}

\* page counts around every threshold of the section-count tables
ThresholdCounts == {19, 20, 21, 39, 40, 50, 51, 100, 101, 160, 180, 200, 201,
                    300, 301, 320, 400, 401, 480}

\* the page counts of the all-prose documents handed to analyze_structure
PlainCounts == ((MaxPages + 1)..MaxPlain)
                  \cup {20, 40, 50, 51, 100, 101, 200, 201, 300, 301, 320}

\* page numbers an untrusted proposal may name, for a book of n pages
StartValues(n) == {-1, 1, 11, 21, n + 3}
EndValues(n) == {0, 10, n \div 2, n + 3}

\* proposals named "A" with both pages, proposals named "B" lacking keys
Proposals(n) ==
    {[name |-> <<65>>, start_page |-> s, end_page |-> e] :
        s \in StartValues(n), e \in EndValues(n)}
        \cup {[name |-> <<66>>, start_page |-> 12], [name |-> <<66>>, end_page |-> 30],
              [start_page |-> 15, end_page |-> 17]}

\* k proposals one after another, each of size pages, named "1", "2", ...
Consecutive(k, size) ==
    [i \in 1..k |-> [name |-> IntStr(i), start_page |-> (i - 1) * size + 1,
                     end_page |-> i * size]]

\* page counts for which every suggestion is enumerated
ValidatorCounts == {20, 40, 45, 100}

\* the oracle raises, answers without JSON, or answers with a structure
NoReply == [kind |-> "none", structure |-> [sections |-> <<>>]]

AutoProposals(n) ==
    {[name |-> <<65>>, start_page |-> 1, end_page |-> n \div 2],
     [name |-> <<66>>, start_page |-> n \div 2 + 1, end_page |-> n],
     [name |-> <<66>>, start_page |-> n \div 2, end_page |-> n + 1]}

Replies(n) ==
    {[kind |-> k, structure |-> [sections |-> <<>>]] : k \in {"raises", "no_json"}}
        \cup {[kind |-> "structure", structure |-> [sections |-> s]] :
                s \in SeqsUpTo(AutoProposals(n), MaxProposals)}

SplitModes == {"by_headings", "by_meaning", "ai_analysis", "auto", "by_pages"}

\* a candidate list as the scan leaves it: end_page not yet set
CandidateList(st) ==
    [i \in 1..Len(st) |-> [name |-> IF i % 2 = 1 THEN N_Kirispe ELSE N_Qorytyndy,
                           type |-> "regular_section",
                           start_page |-> st[i], end_page |-> None, level |-> 1]]

\* analyze_structure(text_data, split_mode), with the oracle's answer in auto mode
CallAnalyze(d) ==
    \/ \E m \in SplitModes \ {"auto"} :
          args = [text_data |-> d, split_mode |-> m, reply |-> NoReply]
    \/ \E r \in Replies(d.total_pages) :
          args = [text_data |-> d, split_mode |-> "auto", reply |-> r]

\* a proposal of size pages that starts on page s
Block(nm, s, size) == [name |-> nm, start_page |-> s, end_page |-> s + size - 1]

\* a 3-page and a 97-page proposal for a book of 100 pages, in either order
SmallAndLarge ==
    UNION {{<<Block(<<83>>, a, 3), Block(<<76>>, b, 97)>>,
            <<Block(<<76>>, b, 97), Block(<<83>>, a, 3)>>} :
           a \in {1, 50, 98}, b \in 1..4}

CallValidate(n) ==
    \/ \E s \in SeqsUpTo(Proposals(n), MaxProposals) :
          args = [structure |-> [sections |-> s], total_pages |-> n]
    \/ \E k \in 1..10, size \in {10, 20} :
          args = [structure |-> [sections |-> Consecutive(k, size)], total_pages |-> n]

(***************************************************************************)
(* State machine: a call arrives with its arguments (Init), the method     *)
(* runs to its end (one action per method), the result is in ret.          *)
(***************************************************************************)

\* the book_ids of the model
BookIds == {"b1", "b2"}

\* a file or a directory that does not exist
Absent == [exists |-> FALSE]

\* a file that holds content
File(content) == [exists |-> TRUE, content |-> content]

\* no method is running in steps
NoFrame == [sections |-> <<>>, current_page |-> 0, section_index |-> 0,
            text_parts |-> <<>>]

Pending == [status |-> "pending", total_pages |-> 0, sections |-> <<>>,
            analysis_method |-> "none"]

\* a list of sections returned by a helper that returns no Structure
ReturnedSections(s) == [status |-> "returned", total_pages |-> 0, sections |-> s,
                        analysis_method |-> "none"]

Init ==
    /\ pc = "ready"
    /\ ret = Pending
    /\ valid_sections = <<>>
    /\ called = <<>>
    /\ frame = NoFrame
    /\ text_files = [b \in BookIds |-> Absent]
    /\ structure_files = [b \in BookIds |-> Absent]
    /\ output_files = [b \in BookIds |-> Absent]
    /\ reqs = <<>>
    /\ \/ /\ op = "analyze_structure"
          /\ \/ \E t \in SeqsUpTo(PageTexts, MaxPages) : CallAnalyze(MakeDoc(t))
             \/ \E n \in PlainCounts : CallAnalyze(PlainDoc(n))
             \/ CallAnalyze(ScenarioDoc)
             \/ CallAnalyze(RepeatDoc)
       \/ /\ op = "_create_reasonable_structure_from_pages"
          /\ \E n \in (0..MaxPlain) \cup ThresholdCounts, k \in (-1)..MaxTarget :
                args = [pages |-> PlainDoc(n).pages, num_sections |-> k]
       \/ /\ op = "_validate_and_fix_ai_structure"
          /\ \/ \E n \in ValidatorCounts : CallValidate(n)
             \/ \E s \in SmallAndLarge :
                   args = [structure |-> [sections |-> s], total_pages |-> 100]
             \/ \E n \in ((0..MaxPlain) \cup ThresholdCounts) \ ValidatorCounts,
                   k \in {0, 1, 2, 9}, size \in {5, 20} :
                   args = [structure |-> [sections |-> Consecutive(k, size)],
                           total_pages |-> n]
       \/ /\ op = "_determine_section_endings"
          /\ \E st \in SeqsUpTo(1..MaxPages, MaxCands), n \in 0..MaxPages :
                /\ st # <<>>
                /\ args = [sections |-> CandidateList(st), total_pages |-> n]
       \/ /\ op \in {"_is_heading", "_get_heading_level"}
          /\ \E line \in Lines : args = [line |-> line]

AnalyzeStructure ==
    /\ pc = "ready"
    /\ op = "analyze_structure"
    /\ ret' = analyze_structure(args.text_data, args.split_mode, args.reply)
    /\ called' = CallTrace(args.text_data, args.split_mode, args.reply)
    /\ pc' = "done"
    /\ UNCHANGED <<op, args, valid_sections>>
    /\ UNCHANGED storage

CreateReasonableStructureFromPages ==
    /\ pc = "ready"
    /\ op = "_create_reasonable_structure_from_pages"
    /\ ret' = ReturnedSections(
                 _create_reasonable_structure_from_pages(args.pages, args.num_sections))
    /\ pc' = "done"
    /\ UNCHANGED <<op, args, valid_sections, called>>
    /\ UNCHANGED storage

ValidateAndFixAiStructure ==
    /\ pc = "ready"
    /\ op = "_validate_and_fix_ai_structure"
    /\ ret' = ReturnedSections(
                 _validate_and_fix_ai_structure(args.structure, args.total_pages))
    /\ valid_sections' =
          IF Get(args.structure, "sections", <<>>) = <<>> THEN <<>>
          ELSE ValidSections(args.structure.sections, args.total_pages)
    /\ pc' = "done"
    /\ UNCHANGED <<op, args, called>>
    /\ UNCHANGED storage

DetermineSectionEndings ==
    /\ pc = "ready"
    /\ op = "_determine_section_endings"
    /\ ret' = ReturnedSections(_determine_section_endings(args.sections, args.total_pages))
    /\ pc' = "done"
    /\ UNCHANGED <<op, args, valid_sections, called>>
    /\ UNCHANGED storage

\* the value v returned by a method that returns no Structure
ReturnedValue(v) == [status |-> "returned", total_pages |-> 0, sections |-> <<>>,
                     analysis_method |-> "none", value |-> v]

IsHeading ==
    /\ pc = "ready"
    /\ op = "_is_heading"
    /\ ret' = ReturnedValue(_is_heading(args.line))
    /\ pc' = "done"
    /\ UNCHANGED <<op, args, valid_sections, called>>
    /\ UNCHANGED storage

GetHeadingLevel ==
    /\ pc = "ready"
    /\ op = "_get_heading_level"
    /\ ret' = ReturnedValue(_get_heading_level(args.line))
    /\ pc' = "done"
    /\ UNCHANGED <<op, args, valid_sections, called>>
    /\ UNCHANGED storage

Next ==
    \/ AnalyzeStructure
    \/ CreateReasonableStructureFromPages
    \/ ValidateAndFixAiStructure
    \/ DetermineSectionEndings
    \/ IsHeading
    \/ GetHeadingLevel

Spec == Init /\ [][Next]_vars

(***************************************************************************)
(* The splitter (backend/splitter.py, class PDFSplitter).  The calls of    *)
(* the file system (makedirs, open, json.dump) are taken to succeed; the   *)
(* rendering of one section's PDF by the designer succeeds or raises, and  *)
(* which of the two is an input of the call.                               *)
(***************************************************************************)

\* a call of the splitter that ends in an exception
Failed == [status |-> "raised", value |-> <<>>]

\* a call of the splitter that returns v
Result(v) == [status |-> "returned", value |-> v]

\* the blank-line separator '\n\n'
BlankLine == <<10, 10>>

\* sep.join(parts)
RECURSIVE Join(_, _)
Join(parts, sep) ==
    IF parts = <<>> THEN <<>>
    ELSE IF Len(parts) = 1 THEN parts[1]
    ELSE parts[1] \o sep \o Join(Tail(parts), sep)

\* the loop with the range closed at start_page only;
\* C25_SectionTextExtraction does not hold of it
RECURSIVE TextPartsBeforeEnd(_, _, _)
TextPartsBeforeEnd(pages, start_page, end_page) ==
    IF pages = <<>> THEN <<>>
    ELSE LET page == Head(pages)
             rest == TextPartsBeforeEnd(Tail(pages), start_page, end_page)
         IN IF start_page <= page.page_number /\ page.page_number < end_page
            THEN <<page.text>> \o rest
            ELSE rest

\* the list text_parts the loop of _extract_section_text builds: the
\* pages of text_data.get('pages', []) are visited in list order
RECURSIVE TextParts(_, _, _)
TextParts(pages, start_page, end_page) ==
    IF pages = <<>> THEN <<>>
    ELSE LET page == Head(pages)
             rest == TextParts(Tail(pages), start_page, end_page)
         IN IF start_page <= page.page_number /\ page.page_number <= end_page
            THEN <<page.text>> \o rest
            ELSE rest

\* _extract_section_text(section, text_data) of the splitter; the method
\* of the same name of the designer (designer.py, 268-278) has the same body
_extract_section_text(section, text_data) ==
    Join(TextParts(Get(text_data, "pages", <<>>),
                   section.start_page, section.end_page), BlankLine)

\* the entry split_and_generate appends for a section whose PDF was made
\* (the path and the name of the PDF file are left out of the entry)
GeneratedFile(section, index) ==
    [title |-> section.name,
     start_page |-> section.start_page,
     end_page |-> section.end_page,
     pages_count |-> section.end_page - section.start_page + 1,
     index |-> index]

\* the loop leaving at the first section whose rendering raises;
\* C28_PartialGeneration does not hold of it
RECURSIVE GeneratedFilesUntilFailure(_, _, _)
GeneratedFilesUntilFailure(sections, renders, index) ==
    IF index > Len(sections) THEN <<>>
    ELSE IF renders[index]
         THEN <<GeneratedFile(sections[index], index)>>
              \o GeneratedFilesUntilFailure(sections, renders, index + 1)
         ELSE <<>>

\* the loop of split_and_generate from position index on: renders[index]
\* tells whether create_section_pdf returns or raises for that section
RECURSIVE GeneratedFiles(_, _, _)
GeneratedFiles(sections, renders, index) ==
    IF index > Len(sections) THEN <<>>
    ELSE IF renders[index]
         THEN <<GeneratedFile(sections[index], index)>>
              \o GeneratedFiles(sections, renders, index + 1)
         ELSE GeneratedFiles(sections, renders, index + 1)

\* the directory output/<book_id> after split_and_generate created it
\* and rendered the PDFs of the positions in pdfs
OutputDir(pdfs, metadata) ==
    [exists |-> TRUE, pdfs |-> pdfs, metadata |-> metadata]

\* the content of metadata.json
Metadata(book_id, design, generated_files) ==
    File([book_id |-> book_id, design_used |-> design,
          total_sections |-> Len(generated_files),
          generated_files |-> generated_files])

\* split_and_generate(book_id, text_data, structure, design): the result
\* of the call and the directory output/<book_id> it leaves
split_and_generate(book_id, text_data, structure, design, renders) ==
    LET sections == Get(structure, "sections", <<>>)
        generated_files == GeneratedFiles(sections, renders, 1)
        pdfs == {i \in 1..Len(sections) : renders[i]}
    IN IF sections = <<>>
       THEN [result |-> Failed, dir |-> OutputDir({}, Absent)]
       ELSE IF generated_files = <<>>
       THEN [result |-> Failed, dir |-> OutputDir(pdfs, Absent)]
       ELSE [result |-> Result(generated_files),
             dir |-> OutputDir(pdfs, Metadata(book_id, design, generated_files))]

\* the section one iteration of the loop of split_by_pages appends
PageSection(section_index, current_page, end_page) ==
    [name |-> N_Bolim \o <<32>> \o IntStr(section_index),
     type |-> "page_based",
     start_page |-> current_page,
     end_page |-> end_page,
     level |-> 1]

\* the structure split_by_pages hands to split_and_generate
PageStructure(total_pages, sections) ==
    [total_pages |-> total_pages, sections |-> sections,
     analysis_method |-> "page_based"]

\* a Python value of a custom section: an int or a str
IntValue(n) == [int |-> n]
StrValue(s) == [str |-> s]

\* the value of a string of decimal digits
RECURSIVE DigitsValue(_)
DigitsValue(s) ==
    IF s = <<>> THEN 0
    ELSE 10 * DigitsValue(SubSeq(s, 1, Len(s) - 1)) + (s[Len(s)] - 48)

\* int(v): an int is itself; a str is stripped, then a sign and decimal
\* digits are read, and anything else is a ValueError
PyInt(v) ==
    IF "int" \in DOMAIN v THEN [ok |-> TRUE, value |-> v.int]
    ELSE LET s == Strip(v.str)
             signed == s # <<>> /\ s[1] \in {43, 45}
             digits == IF signed THEN Tail(s) ELSE s
         IN IF digits # <<>> /\ \A i \in 1..Len(digits) : IsDigit(digits[i])
            THEN [ok |-> TRUE,
                  value |-> IF signed /\ s[1] = 45 THEN 0 - DigitsValue(digits)
                            ELSE DigitsValue(digits)]
            ELSE [ok |-> FALSE, value |-> 0]

\* one section passes the checks of _validate_custom_sections
CustomKept(section, total_pages) ==
    /\ {"name", "start_page", "end_page"} \subseteq DOMAIN section
    /\ LET start_page == PyInt(section.start_page).value
           end_page == PyInt(section.end_page).value
       IN ~(start_page < 1 \/ end_page > total_pages \/ start_page > end_page)

\* the section _validate_custom_sections keeps in place of section
CustomSection(section) ==
    [name |-> section.name,
     type |-> Get(section, "type", "custom"),
     start_page |-> PyInt(section.start_page).value,
     end_page |-> PyInt(section.end_page).value,
     level |-> Get(section, "level", 1)]

\* int() raises for a page value of the section (the keys are there)
CustomRaises(section) ==
    /\ {"name", "start_page", "end_page"} \subseteq DOMAIN section
    /\ (~PyInt(section.start_page).ok \/ ~PyInt(section.end_page).ok)

\* _validate_custom_sections(sections, text_data)
_validate_custom_sections(sections, text_data) ==
    LET total_pages == Get(text_data, "total_pages", 0)
        kept == SelectSeq(sections, LAMBDA s : CustomKept(s, total_pages))
    IN IF \E i \in 1..Len(sections) : CustomRaises(sections[i])
       THEN Failed
       ELSE Result([i \in 1..Len(kept) |-> CustomSection(kept[i])])

(***************************************************************************)
(* Inputs of the splitter                                                  *)
(***************************************************************************)

\* the pages of the largest document handed to the splitter
MaxSplitPages == 3

\* the sections of the longest structure handed to split_and_generate
MaxSplitSections == 3

\* the iterations after which a run of the loop of split_by_pages is no
\* longer followed; a run with pages_per_section >= 1 makes at most
\* MaxSplitPages iterations, so only runs that do not end are cut
MaxLoopSections == 5

\* the custom sections of the longest list handed to the validator
MaxCustom == 2

\* a document of n pages, the text of page p the p-th letter
SplitDoc(n) == MakeDoc([p \in 1..n |-> <<96 + p>>])

\* the same pages listed from the last to the first
ReversedDoc(n) ==
    [total_pages |-> n,
     pages |-> [i \in 1..n |-> [page_number |-> n + 1 - i,
                                text |-> <<96 + (n + 1 - i)>>]]]

SplitDocs == {SplitDoc(n) : n \in 0..MaxSplitPages} \cup {ReversedDoc(MaxSplitPages)}

\* page ranges, those out of the document and the inverted ones included
Ranges == {[start_page |-> s, end_page |-> e] :
               s \in 0..(MaxSplitPages + 1), e \in 0..(MaxSplitPages + 1)}

\* the sections of the structures handed to split_and_generate
SplitSections ==
    {[name |-> N_Bolim, type |-> "chapter", start_page |-> s, end_page |-> e, level |-> 1] :
         s \in {1, 2}, e \in {2, MaxSplitPages}}

\* the structure of the sections s
SplitStructure(s) ==
    [total_pages |-> MaxSplitPages, sections |-> s, analysis_method |-> "by_headings"]

\* which renderings succeed when split_by_pages generates: all, none,
\* those of the odd positions
RenderKinds == {"all", "none", "odd"}

Renders(kind, n) ==
    [i \in 1..n |-> kind = "all" \/ (kind = "odd" /\ i % 2 = 1)]

\* the page values of a custom section: ints in and out of the document,
\* a str of digits, a str that is no number
CustomStarts == {IntValue(0), IntValue(1), IntValue(3), StrValue(<<50>>), StrValue(<<120>>)}
CustomEnds == {IntValue(1), IntValue(2), IntValue(4), StrValue(<<32, 51>>)}

CustomSections ==
    {[name |-> N_Bolim, start_page |-> s, end_page |-> e] :
         s \in CustomStarts, e \in CustomEnds}
    \cup {[name |-> N_Bolim, start_page |-> IntValue(1)],
          [name |-> N_Bolim, end_page |-> IntValue(1)],
          [start_page |-> IntValue(1), end_page |-> IntValue(1)],
          [name |-> N_Bolim, start_page |-> StrValue(<<120>>)]}

(***************************************************************************)
(* State machine of the splitter: a call arrives (SplitterInit) and runs   *)
(* to its end in one action, but split_by_pages, which runs its loop one   *)
(* iteration at a time.                                                    *)
(***************************************************************************)

SplitterInit ==
    /\ pc = "ready"
    /\ ret = Pending
    /\ valid_sections = <<>>
    /\ called = <<>>
    /\ frame = NoFrame
    /\ text_files = [b \in BookIds |-> Absent]
    /\ structure_files = [b \in BookIds |-> Absent]
    /\ output_files = [b \in BookIds |-> Absent]
    /\ reqs = <<>>
    /\ \/ /\ op = "_extract_section_text"
          /\ \E d \in SplitDocs, r \in Ranges :
                 args = [section |-> r, text_data |-> d]
       \/ /\ op = "split_and_generate"
          /\ \E n \in 0..MaxSplitSections :
                 \E s \in [1..n -> SplitSections], r \in [1..n -> BOOLEAN] :
                     args = [book_id |-> "b1", text_data |-> SplitDoc(MaxSplitPages),
                             structure |-> SplitStructure(s), design |-> "default",
                             renders |-> r]
       \/ /\ op = "split_by_pages"
          /\ \E n \in 0..MaxSplitPages, k \in (0 - 1)..(MaxSplitPages + 1), r \in RenderKinds :
                 args = [book_id |-> "b1", text_data |-> SplitDoc(n),
                         pages_per_section |-> k, design |-> "default", render |-> r]
       \/ /\ op = "_validate_custom_sections"
          /\ \E n \in 0..MaxCustom, total \in {0, MaxSplitPages} :
                 \E s \in [1..n -> CustomSections] :
                     args = [sections |-> s, text_data |-> SplitDoc(total)]

ExtractSectionText ==
    /\ pc = "ready"
    /\ op = "_extract_section_text"
    /\ ret' = Result(_extract_section_text(args.section, args.text_data))
    /\ frame' = [frame EXCEPT !.text_parts =
                     TextParts(Get(args.text_data, "pages", <<>>),
                               args.section.start_page, args.section.end_page)]
    /\ pc' = "done"
    /\ UNCHANGED <<op, args, valid_sections, called>>
    /\ UNCHANGED <<text_files, structure_files, output_files, reqs>>

SplitAndGenerate ==
    /\ pc = "ready"
    /\ op = "split_and_generate"
    /\ LET r == split_and_generate(args.book_id, args.text_data, args.structure,
                                   args.design, args.renders)
       IN /\ ret' = r.result
          /\ output_files' = [output_files EXCEPT ![args.book_id] = r.dir]
    /\ pc' = "done"
    /\ UNCHANGED <<op, args, valid_sections, called>>
    /\ UNCHANGED <<frame, text_files, structure_files, reqs>>

\* split_by_pages up to its loop: no pages is an error, else the locals
\* of the loop are set
SplitByPagesBegin ==
    /\ pc = "ready"
    /\ op = "split_by_pages"
    /\ IF Get(args.text_data, "total_pages", 0) = 0
       THEN /\ ret' = Failed
            /\ pc' = "done"
            /\ UNCHANGED frame
       ELSE /\ frame' = [frame EXCEPT !.sections = <<>>, !.current_page = 1,
                                      !.section_index = 1]
            /\ pc' = "loop"
            /\ UNCHANGED ret
    /\ UNCHANGED <<op, args, valid_sections, called>>
    /\ UNCHANGED <<text_files, structure_files, output_files, reqs>>

\* one iteration of the loop of split_by_pages
SplitByPagesLoop ==
    /\ pc = "loop"
    /\ op = "split_by_pages"
    /\ frame.current_page <= args.text_data.total_pages
    /\ Len(frame.sections) < MaxLoopSections
    /\ LET end_page == Min(frame.current_page + args.pages_per_section - 1,
                           args.text_data.total_pages)
       IN frame' = [frame EXCEPT
                        !.sections = Append(@, PageSection(frame.section_index,
                                                           frame.current_page, end_page)),
                        !.current_page = end_page + 1,
                        !.section_index = @ + 1]
    /\ UNCHANGED <<pc, op, args, ret, valid_sections, called>>
    /\ UNCHANGED <<text_files, structure_files, output_files, reqs>>

\* split_by_pages after its loop: the structure is built and generated
SplitByPagesEnd ==
    /\ pc = "loop"
    /\ op = "split_by_pages"
    /\ ~(frame.current_page <= args.text_data.total_pages)
    /\ LET r == split_and_generate(args.book_id, args.text_data,
                    PageStructure(args.text_data.total_pages, frame.sections),
                    args.design, Renders(args.render, Len(frame.sections)))
       IN /\ ret' = r.result
          /\ output_files' = [output_files EXCEPT ![args.book_id] = r.dir]
    /\ pc' = "done"
    /\ UNCHANGED <<op, args, valid_sections, called>>
    /\ UNCHANGED <<frame, text_files, structure_files, reqs>>

ValidateCustomSections ==
    /\ pc = "ready"
    /\ op = "_validate_custom_sections"
    /\ ret' = _validate_custom_sections(args.sections, args.text_data)
    /\ pc' = "done"
    /\ UNCHANGED <<op, args, valid_sections, called>>
    /\ UNCHANGED storage

SplitterNext ==
    \/ ExtractSectionText
    \/ SplitAndGenerate
    \/ SplitByPagesBegin
    \/ SplitByPagesLoop
    \/ SplitByPagesEnd
    \/ ValidateCustomSections

SplitterSpec == SplitterInit /\ [][SplitterNext]_vars

(***************************************************************************)
(* The HTTP server (backend/main.py): the handlers of /analyze and of      *)
(* /generate, which share the module-level instances ai_analyzer and       *)
(* pdf_splitter and the directories temp/ and output/.  A request runs its *)
(* handler one statement at a time, and the statements of the requests in  *)
(* progress interleave in every order.  The methods of the analyser only   *)
(* read the tables __init__ sets (heading_patterns, section_keywords);     *)
(* nothing but __init__ assigns an attribute of the instance.  json.dump   *)
(* followed by json.load gives back the dicts, lists, strs and ints of a   *)
(* Document and of a Structure as they were.                               *)
(***************************************************************************)

\* the requests in progress at the same time
MaxRequests == 2

\* the Document the upload of book b has stored
UploadedDoc(b) == IF b = "b1" THEN MakeDoc(<<T_intro, T_concl>>) ELSE PlainDoc(3)

\* a variant in which every analysis writes temp/b1_structure.json;
\* C26_IndependentAnalyses does not hold of it
SharedStructureFile(book_id) == "b1"

\* the file temp/<book_id>_structure.json, named by its book_id
StructureFile(book_id) == book_id

\* the file temp/<book_id>_text.json, named by its book_id
TextFile(book_id) == book_id

\* the except clause of both handlers: whatever was raised in the try
\* block, the HTTPException(404) of the handler included, is answered
\* by HTTPException(status_code=500)
ExceptClause(status) == 500

\* a Document and a Structure not loaded yet
NoDoc == [total_pages |-> 0, pages |-> <<>>]
NoStructure == [total_pages |-> 0, sections |-> <<>>, analysis_method |-> "none"]

\* a request that arrived: its handler has not started
NewRequest(kind, book_id, split_mode) ==
    [kind |-> kind, book_id |-> book_id, split_mode |-> split_mode,
     pc |-> "new", found |-> FALSE, text_data |-> NoDoc, structure |-> NoStructure,
     status |-> 0, parts |-> <<>>]

Requests ==
    {NewRequest("analyze", b, m) : b \in BookIds, m \in {"by_headings", "by_meaning"}}
    \cup {NewRequest("generate", b, "none") : b \in BookIds}

ServerInit ==
    /\ pc = "serving"
    /\ op = "server"
    /\ args = [design |-> "default"]
    /\ ret = Pending
    /\ valid_sections = <<>>
    /\ called = <<>>
    /\ frame = NoFrame
    /\ text_files \in [BookIds -> {Absent} \cup {File(UploadedDoc(b)) : b \in BookIds}]
    /\ \A b \in BookIds : text_files[b] \in {Absent, File(UploadedDoc(b))}
    /\ structure_files = [b \in BookIds |-> Absent]
    /\ output_files = [b \in BookIds |-> Absent]
    /\ reqs \in [1..MaxRequests -> Requests]

\* /analyze, lines 97-103: the text file is looked for
AnalyzeCheck(i) ==
    /\ reqs[i].kind = "analyze"
    /\ reqs[i].pc = "new"
    /\ IF text_files[TextFile(reqs[i].book_id)].exists
       THEN reqs' = [reqs EXCEPT ![i].pc = "checked", ![i].found = TRUE]
       ELSE reqs' = [reqs EXCEPT ![i].pc = "answered", ![i].status = ExceptClause(404)]
    /\ UNCHANGED <<pc, op, args, ret, valid_sections, called>>
    /\ UNCHANGED <<frame, text_files, structure_files, output_files>>

\* /analyze, lines 106-107: the text is loaded
AnalyzeLoad(i) ==
    /\ reqs[i].kind = "analyze"
    /\ reqs[i].pc = "checked"
    /\ reqs' = [reqs EXCEPT ![i].pc = "loaded",
                            ![i].text_data = text_files[TextFile(reqs[i].book_id)].content]
    /\ UNCHANGED <<pc, op, args, ret, valid_sections, called>>
    /\ UNCHANGED <<frame, text_files, structure_files, output_files>>

\* /analyze, line 110: the shared analyser is called (the modes of the
\* requests are heuristic: no oracle is asked)
AnalyzeRun(i) ==
    /\ reqs[i].kind = "analyze"
    /\ reqs[i].pc = "loaded"
    /\ LET r == analyze_structure(reqs[i].text_data, reqs[i].split_mode, NoReply)
       IN IF r.status = "raised"
          THEN reqs' = [reqs EXCEPT ![i].pc = "answered", ![i].status = ExceptClause(500)]
          ELSE reqs' = [reqs EXCEPT ![i].pc = "analyzed",
                            ![i].structure = [total_pages |-> r.total_pages,
                                              sections |-> r.sections,
                                              analysis_method |-> r.analysis_method]]
    /\ UNCHANGED <<pc, op, args, ret, valid_sections, called>>
    /\ UNCHANGED <<frame, text_files, structure_files, output_files>>

\* /analyze, lines 113-122: the structure is stored and returned
AnalyzeSave(i) ==
    /\ reqs[i].kind = "analyze"
    /\ reqs[i].pc = "analyzed"
    /\ structure_files' = [structure_files EXCEPT
                               ![StructureFile(reqs[i].book_id)] = File(reqs[i].structure)]
    /\ reqs' = [reqs EXCEPT ![i].pc = "answered", ![i].status = 200]
    /\ UNCHANGED <<pc, op, args, ret, valid_sections, called>>
    /\ UNCHANGED <<frame, text_files, output_files>>

\* /generate, lines 131-142: the text file and the structure file are
\* looked for
GenerateCheck(i) ==
    /\ reqs[i].kind = "generate"
    /\ reqs[i].pc = "new"
    /\ IF ~text_files[TextFile(reqs[i].book_id)].exists
          \/ ~structure_files[StructureFile(reqs[i].book_id)].exists
       THEN reqs' = [reqs EXCEPT ![i].pc = "answered", ![i].status = ExceptClause(404)]
       ELSE reqs' = [reqs EXCEPT ![i].pc = "checked", ![i].found = TRUE]
    /\ UNCHANGED <<pc, op, args, ret, valid_sections, called>>
    /\ UNCHANGED <<frame, text_files, structure_files, output_files>>

\* /generate, lines 145-149: the text and the structure are loaded
GenerateLoad(i) ==
    /\ reqs[i].kind = "generate"
    /\ reqs[i].pc = "checked"
    /\ reqs' = [reqs EXCEPT ![i].pc = "loaded",
                    ![i].text_data = text_files[TextFile(reqs[i].book_id)].content,
                    ![i].structure = structure_files[StructureFile(reqs[i].book_id)].content]
    /\ UNCHANGED <<pc, op, args, ret, valid_sections, called>>
    /\ UNCHANGED <<frame, text_files, structure_files, output_files>>

\* /generate, lines 152-165: the shared splitter generates the PDFs (every
\* rendering succeeds) and the parts are returned
GenerateRun(i) ==
    /\ reqs[i].kind = "generate"
    /\ reqs[i].pc = "loaded"
    /\ LET r == split_and_generate(reqs[i].book_id, reqs[i].text_data,
                                   reqs[i].structure, args.design,
                                   Renders("all", Len(reqs[i].structure.sections)))
       IN /\ output_files' = [output_files EXCEPT ![reqs[i].book_id] = r.dir]
          /\ IF r.result.status = "raised"
             THEN reqs' = [reqs EXCEPT ![i].pc = "answered",
                                       ![i].status = ExceptClause(500)]
             ELSE reqs' = [reqs EXCEPT ![i].pc = "answered", ![i].status = 200,
                                       ![i].parts = r.result.value]
    /\ UNCHANGED <<pc, op, args, ret, valid_sections, called>>
    /\ UNCHANGED <<frame, text_files, structure_files>>

ServerNext ==
    \E i \in 1..MaxRequests :
        \/ AnalyzeCheck(i)
        \/ AnalyzeLoad(i)
        \/ AnalyzeRun(i)
        \/ AnalyzeSave(i)
        \/ GenerateCheck(i)
        \/ GenerateLoad(i)
        \/ GenerateRun(i)

ServerSpec == ServerInit /\ [][ServerNext]_vars

(***************************************************************************)
(* Properties                                                              *)
(***************************************************************************)

\* the number of pages of a section
PagesOf(s) == s.end_page - s.start_page + 1

RECURSIVE SumPages(_)
SumPages(ss) == IF ss = <<>> THEN 0 ELSE PagesOf(Head(ss)) + SumPages(Tail(ss))

SortedByStart(ss) ==
    \A i \in 1..(Len(ss) - 1) : ss[i].start_page <= ss[i + 1].start_page

Contiguous(ss) ==
    \A i \in 1..(Len(ss) - 1) : ss[i].end_page + 1 = ss[i + 1].start_page

\* the sections partition the pages 1..n, in order
PartitionOf(ss, n) ==
    /\ Len(ss) >= 1
    /\ SortedByStart(ss)
    /\ ss[1].start_page = 1
    /\ ss[Len(ss)].end_page = n
    /\ Contiguous(ss)

NonEmptySections(ss) == \A i \in 1..Len(ss) : ss[i].start_page <= ss[i].end_page

\* the first n mod k sections hold n div k + 1 pages, the others n div k
FrontLoaded(ss, n, k) ==
    \A i \in 1..Len(ss) : PagesOf(ss[i]) = (n \div k) + (IF i <= n % k THEN 1 ELSE 0)

\* every page of 1..n lies in a section
CoversAll(ss, n) ==
    \A page \in 1..n :
        \E i \in 1..Len(ss) : ss[i].start_page <= page /\ page <= ss[i].end_page

\* the (page, line) places of a document whose stripped line the classifier accepts
Eligible(pages) ==
    UNION {{<<p, k>> : k \in {j \in 1..Len(Split(pages[p].text)) :
                                _is_heading(Strip(Split(pages[p].text)[j]))}} :
           p \in 1..Len(pages)}

AnalyzeDone(mode) ==
    pc = "done" /\ op = "analyze_structure" /\ args.split_mode = mode

PlannerDone == pc = "done" /\ op = "_create_reasonable_structure_from_pages"

ValidatorDone == pc = "done" /\ op = "_validate_and_fix_ai_structure"

EndingsDone == pc = "done" /\ op = "_determine_section_endings"

\* C1: whenever analyze_structure returns a Structure for a document of
\* N >= 1 pages in a recognized mode, its sections are sorted by start_page,
\* the first starts at page 1, the last ends at page N and each section
\* starts on the page after the one before it ends.
C1_CoverageTotality ==
    (/\ pc = "done"
     /\ op = "analyze_structure"
     /\ args.split_mode \in {"by_headings", "by_meaning", "ai_analysis", "auto"}
     /\ args.text_data.total_pages >= 1
     /\ ret.status = "returned")
        => PartitionOf(ret.sections, args.text_data.total_pages)

\* C2: for N >= 1 pages and any target count, the fallback planner returns
\* exactly k = max(2, min(target, N div 5)) sections whose page counts sum
\* to N, the first N mod k one page longer, none empty, from page 1 to N.
C2_EvenPartitionExact ==
    (PlannerDone /\ Len(args.pages) >= 1)
        => LET n == Len(args.pages)
               k == Max(2, Min(args.num_sections, n \div 5))
           IN  /\ Len(ret.sections) = k
               /\ SumPages(ret.sections) = n
               /\ FrontLoaded(ret.sections, n, k)
               /\ NonEmptySections(ret.sections)
               /\ ret.sections[1].start_page = 1
               /\ ret.sections[k].end_page = n

\* C3: for N >= 1, _analyze_by_meaning returns exactly
\* _calculate_optimal_sections(N) sections, the first N mod count of them one
\* page longer, none empty, covering 1..N contiguously.
C3_ByMeaningPartition ==
    (AnalyzeDone("by_meaning") /\ args.text_data.total_pages >= 1)
        => LET n == args.text_data.total_pages
               count == _calculate_optimal_sections(n)
           IN  /\ ret.status = "returned"
               /\ Len(ret.sections) = count
               /\ FrontLoaded(ret.sections, n, count)
               /\ NonEmptySections(ret.sections)
               /\ PartitionOf(ret.sections, n)

\* C4: _determine_section_endings sets the end_page of every candidate but
\* the last to the next candidate's start_page - 1 and that of the last to
\* total_pages, and changes neither the order, the count, the start_page nor
\* the name of any candidate.
C4_SectionEndings ==
    EndingsDone
        => /\ Len(ret.sections) = Len(args.sections)
           /\ \A i \in 1..Len(args.sections) :
                /\ ret.sections[i].name = args.sections[i].name
                /\ ret.sections[i].start_page = args.sections[i].start_page
                /\ ret.sections[i].end_page =
                      IF i < Len(args.sections)
                      THEN args.sections[i + 1].start_page - 1
                      ELSE args.total_pages

\* three candidates, the first two on the same page, have been resolved
C4_Witness ==
    /\ EndingsDone
    /\ Len(args.sections) = 3
    /\ args.sections[1].start_page = args.sections[2].start_page
    /\ ret.sections[1].end_page = args.sections[2].start_page - 1
    /\ ret.sections[3].end_page = args.total_pages
    /\ args.total_pages > args.sections[3].start_page

\* C5: every section returned by the by_headings analysis satisfies
\* 1 <= start_page <= end_page, also when heading lines share a page.
C5_HeadingSectionsWellFormed ==
    (AnalyzeDone("by_headings") /\ ret.status = "returned")
        => \A i \in 1..Len(ret.sections) :
              /\ 1 <= ret.sections[i].start_page
              /\ ret.sections[i].start_page <= ret.sections[i].end_page

\* C6: when the scan of a document of N >= 1 pages finds fewer than 2 heading
\* candidates, the by_headings analysis returns at least 2 sections that
\* cover every page of 1..N.
C6_QualityGateFallback ==
    (/\ AnalyzeDone("by_headings")
     /\ args.text_data.total_pages >= 1
     /\ Cardinality(Eligible(args.text_data.pages)) < 2)
        => /\ ret.status = "returned"
           /\ Len(ret.sections) >= 2
           /\ CoversAll(ret.sections, args.text_data.total_pages)

\* C7: when exactly two lines of a document of N pages are heading-eligible,
\* one on page 1 and one on a page p > 1, the by_headings analysis returns
\* exactly the sections [1, p-1] and [p, N], named by the two lines.
C7_EndToEndHeadingSplit ==
    AnalyzeDone("by_headings")
        => LET pages == args.text_data.pages
               E == Eligible(pages)
               line(e) == Strip(Split(pages[e[1]].text)[e[2]])
           IN  Cardinality(E) = 2
                 => \A e1, e2 \in E :
                       (e1[1] = 1 /\ e2[1] > 1)
                         => /\ ret.status = "returned"
                            /\ Len(ret.sections) = 2
                            /\ ret.sections[1].name = line(e1)
                            /\ ret.sections[1].start_page = 1
                            /\ ret.sections[1].end_page = e2[1] - 1
                            /\ ret.sections[2].name = line(e2)
                            /\ ret.sections[2].start_page = e2[1]
                            /\ ret.sections[2].end_page = Len(pages)

\* the scenario of the specification: 120 pages, headings on pages 1 and 61
C7_Witness ==
    /\ AnalyzeDone("by_headings")
    /\ args.text_data.total_pages = 120
    /\ Eligible(args.text_data.pages) = {<<1, 1>>, <<61, 2>>}
    /\ Len(ret.sections) = 2
    /\ ret.sections[1].name = N_Kirispe
    /\ ret.sections[1].end_page = 60
    /\ ret.sections[2].name = N_Qorytyndy
    /\ ret.sections[2].start_page = 61
    /\ ret.sections[2].end_page = 120

\* C8: for N >= 1, validating a suggestion without sections yields exactly
\* the 3 sections introduction, body, conclusion, each with
\* 1 <= start_page <= end_page <= N.
C8_EmptySuggestionDefault ==
    (/\ ValidatorDone
     /\ args.structure.sections = <<>>
     /\ args.total_pages >= 1)
        => /\ Len(ret.sections) = 3
           /\ ret.sections[1].type = "introduction"
           /\ ret.sections[3].type = "conclusion"
           /\ ret.sections[1].end_page = Max(1, args.total_pages \div 4)
           /\ ret.sections[3].start_page > (args.total_pages * 3) \div 4
           /\ \A i \in 1..Len(ret.sections) :
                /\ 1 <= ret.sections[i].start_page
                /\ ret.sections[i].start_page <= ret.sections[i].end_page
                /\ ret.sections[i].end_page <= args.total_pages

\* the range the specification gives a proposal: start and end swapped when
\* inverted, then both clamped into 1..n and the end not below the start
SwapThenClamp(p, n) ==
    LET s == IF "start_page" \in DOMAIN p THEN p.start_page ELSE 1
        e == IF "end_page" \in DOMAIN p THEN p.end_page ELSE n
        lo == IF s <= e THEN s ELSE e
        hi == IF s <= e THEN e ELSE s
        st == IF lo < 1 THEN 1 ELSE IF lo > n THEN n ELSE lo
        en0 == IF hi > n THEN n ELSE hi
    IN  [start_page |-> st, end_page |-> IF en0 < st THEN st ELSE en0]

\* the proposals among the first c whose repaired range spans 10 pages or more
Survivors(sections, n, c) ==
    {k \in 1..Len(sections) : k <= c /\ PagesOf(SwapThenClamp(sections[k], n)) >= 10}

\* the name the validator gives the k-th proposal
KeptName(p, k) ==
    IF "name" \in DOMAIN p THEN p.name ELSE N_Bolim \o <<32>> \o IntStr(k)

\* C9, as claimed: the validator considers exactly the first
\* min(8, N div 10) proposals, 10 being the minimum section size, and its
\* output never has more sections than that.
C9_SectionCapByMinimumSize ==
    (ValidatorDone /\ args.structure.sections # <<>>)
        => LET c == Min(8, args.total_pages \div 10) IN
           /\ Len(valid_sections)
                 = Cardinality(Survivors(args.structure.sections, args.total_pages, c))
           /\ Len(ret.sections) <= c

\* C9, amended: the validator considers exactly the first min(8, N div 20)
\* proposals, in input order, and discards the rest; when at least one of
\* them survives, its output has no more sections than that.
C9_SectionCap ==
    (ValidatorDone /\ args.structure.sections # <<>>)
        => LET c == Min(8, args.total_pages \div 20)
               s == args.structure.sections
               n == args.total_pages
           IN  /\ Len(valid_sections) = Cardinality(Survivors(s, n, c))
               /\ \A i \in 1..Len(valid_sections) :
                     \E k \in Survivors(s, n, c) :
                        /\ valid_sections[i].name = KeptName(s[k], k)
                        /\ valid_sections[i].start_page = SwapThenClamp(s[k], n).start_page
                        /\ Cardinality({j \in Survivors(s, n, c) : j < k}) = i - 1
               /\ valid_sections # <<>> => Len(ret.sections) <= c

\* nine proposals of 20 pages for a book that has room for nine: eight are kept
C9_Witness ==
    /\ ValidatorDone
    /\ Len(args.structure.sections) = 9
    /\ args.total_pages \div 20 >= 9
    /\ \A k \in 1..9 : PagesOf(SwapThenClamp(args.structure.sections[k], args.total_pages)) >= 10
    /\ Len(valid_sections) = 8
    /\ Len(ret.sections) = 8

\* C10: for N >= 1, the range the validator keeps for a proposal is the
\* proposal's range with start and end swapped when inverted and then
\* clamped, and satisfies 1 <= start_page <= end_page <= N; this holds for
\* every proposal it considers whose repaired range passes the size filter.
C10_RangeRepair ==
    (ValidatorDone /\ args.structure.sections # <<>> /\ args.total_pages >= 1)
        => LET s == args.structure.sections
               n == args.total_pages
               considered == 1..Min(Len(s), Min(8, n \div 20))
           IN  /\ \A i \in 1..Len(valid_sections) :
                     /\ 1 <= valid_sections[i].start_page
                     /\ valid_sections[i].start_page <= valid_sections[i].end_page
                     /\ valid_sections[i].end_page <= n
                     /\ \E k \in considered :
                           /\ valid_sections[i].start_page = SwapThenClamp(s[k], n).start_page
                           /\ valid_sections[i].end_page = SwapThenClamp(s[k], n).end_page
               /\ \A k \in considered :
                     PagesOf(SwapThenClamp(s[k], n)) >= 10
                       => \E i \in 1..Len(valid_sections) :
                             /\ valid_sections[i].start_page = SwapThenClamp(s[k], n).start_page
                             /\ valid_sections[i].end_page = SwapThenClamp(s[k], n).end_page
               /\ valid_sections # <<>>
                     => \A i \in 1..Len(ret.sections) :
                           /\ 1 <= ret.sections[i].start_page
                           /\ ret.sections[i].start_page <= ret.sections[i].end_page
                           /\ ret.sections[i].end_page <= n

\* an inverted proposal, its start beyond the book and its end below page 1,
\* has been kept as the whole book
C10_Witness ==
    /\ ValidatorDone
    /\ args.total_pages >= 20
    /\ Len(args.structure.sections) >= 1
    /\ "start_page" \in DOMAIN args.structure.sections[1]
    /\ "end_page" \in DOMAIN args.structure.sections[1]
    /\ args.structure.sections[1].start_page > args.total_pages
    /\ args.structure.sections[1].end_page < 1
    /\ Len(valid_sections) >= 1
    /\ valid_sections[1].start_page = 1
    /\ valid_sections[1].end_page = args.total_pages

\* what identifies a section of the output: its name and its first page
KeyOf(sec) == <<sec.name, sec.start_page>>

\* the key under which the k-th proposal is kept
SurvivorKey(sections, k, n) ==
    <<KeptName(sections[k], k), SwapThenClamp(sections[k], n).start_page>>

\* the cap of the validator on the number of proposals it considers
Cap(n) == Min(8, n \div 20)

\* a and b hold the same elements the same number of times
SameBag(a, b) ==
    /\ Len(a) = Len(b)
    /\ \A i \in 1..Len(a) :
          Cardinality({j \in 1..Len(a) : a[j] = a[i]})
             = Cardinality({j \in 1..Len(b) : b[j] = a[i]})

\* C11: when a proposal survives, the validated output holds exactly the
\* proposals within the cap whose repaired span is 10 pages or more, each
\* once, and none whose repaired span is below 10; every section of the
\* output spans at least 10 pages.
C11_MinimumSizeFilter ==
    (/\ ValidatorDone
     /\ args.structure.sections # <<>>
     /\ Survivors(args.structure.sections, args.total_pages, Cap(args.total_pages)) # {})
        => LET s == args.structure.sections
               n == args.total_pages
               S == Survivors(s, n, Cap(n))
               out == ret.sections
           IN  /\ Len(out) = Cardinality(S)
               /\ \A i \in 1..Len(out) : PagesOf(out[i]) >= 10
               /\ \A i \in 1..Len(out) :
                     Cardinality({j \in 1..Len(out) : KeyOf(out[j]) = KeyOf(out[i])})
                        = Cardinality({k \in S : SurvivorKey(s, k, n) = KeyOf(out[i])})
               /\ \A k \in S : \E i \in 1..Len(out) : KeyOf(out[i]) = SurvivorKey(s, k, n)

\* of two proposals within the cap, the one of exactly 10 pages has been kept
\* and the one of fewer pages dropped
C11_Witness ==
    /\ ValidatorDone
    /\ Len(args.structure.sections) = 2
    /\ Cap(args.total_pages) >= 2
    /\ PagesOf(SwapThenClamp(args.structure.sections[1], args.total_pages)) < 10
    /\ PagesOf(SwapThenClamp(args.structure.sections[2], args.total_pages)) = 10
    /\ Len(ret.sections) = 1
    /\ ret.sections[1].start_page
          = SwapThenClamp(args.structure.sections[2], args.total_pages).start_page

\* C12: for N >= 1, when no proposal of a non-empty suggestion survives the
\* cap and the filter, the validator returns k >= 2 non-empty sections that
\* cover 1..N contiguously, the first N mod k one page longer, the first an
\* introduction and the last a conclusion.
C12_NothingSurvives ==
    (/\ ValidatorDone
     /\ args.structure.sections # <<>>
     /\ args.total_pages >= 1
     /\ Survivors(args.structure.sections, args.total_pages, Cap(args.total_pages)) = {})
        => LET out == ret.sections
               k == Len(out)
           IN  /\ k >= 2
               /\ NonEmptySections(out)
               /\ PartitionOf(out, args.total_pages)
               /\ FrontLoaded(out, args.total_pages, k)
               /\ out[1].type = "introduction"
               /\ out[k].type = "conclusion"

\* C13: whenever a proposal survives validation, the returned sections are
\* sorted by start_page and every page of 1..N lies in a returned section.
C13_CoverageRepairTotal ==
    (/\ ValidatorDone
     /\ args.structure.sections # <<>>
     /\ Survivors(args.structure.sections, args.total_pages, Cap(args.total_pages)) # {})
        => /\ SortedByStart(ret.sections)
           /\ CoversAll(ret.sections, args.total_pages)

\* C14: the sections of a validated Structure are pairwise non-overlapping:
\* no page belongs to two returned sections.
C14_NoOverlap ==
    ValidatorDone
        => \A i, j \in 1..Len(ret.sections) :
              i < j => ~\E page \in 1..args.total_pages :
                          /\ ret.sections[i].start_page <= page
                          /\ page <= ret.sections[i].end_page
                          /\ ret.sections[j].start_page <= page
                          /\ page <= ret.sections[j].end_page

RecognizedModes == {"by_headings", "by_meaning", "ai_analysis", "auto"}

\* proposal p names both pages, within 1..n, and spans size pages
InBoundsOfSize(p, n, size) ==
    /\ "start_page" \in DOMAIN p
    /\ "end_page" \in DOMAIN p
    /\ 1 <= p.start_page
    /\ p.end_page <= n
    /\ p.end_page - p.start_page + 1 = size

\* C16: for a book of 100 pages and a suggestion of one 3-page and one
\* 97-page proposal, in either order and anywhere within the book, the
\* validated Structure has exactly one section, the 97-page proposal,
\* extended to span the pages 1..100.
C16_SingleSurvivor ==
    (/\ ValidatorDone
     /\ args.total_pages = 100
     /\ Len(args.structure.sections) = 2)
        => \A i, j \in 1..2 :
              (/\ InBoundsOfSize(args.structure.sections[i], 100, 3)
               /\ InBoundsOfSize(args.structure.sections[j], 100, 97))
                 => /\ Len(ret.sections) = 1
                    /\ ret.sections[1].name = args.structure.sections[j].name
                    /\ ret.sections[1].start_page = 1
                    /\ ret.sections[1].end_page = 100

\* C17: analyze_structure called with a mode that is not by_headings,
\* by_meaning, ai_analysis or auto raises, returns no Structure and calls
\* neither an analysis nor the oracle.
C17_UnsupportedMode ==
    (pc = "done" /\ op = "analyze_structure" /\ args.split_mode \notin RecognizedModes)
        => /\ ret.status = "raised"
           /\ ret.sections = <<>>
           /\ called = <<>>

\* a document with headings has been analysed in the mode by_pages
C17_Witness ==
    /\ pc = "done"
    /\ op = "analyze_structure"
    /\ args.split_mode = "by_pages"
    /\ args.text_data.total_pages >= 2
    /\ Cardinality(Eligible(args.text_data.pages)) >= 2
    /\ ret.status = "raised"

\* C18: for a document of zero pages, analyze_structure raises in every
\* recognized mode and never returns a Structure.
C18_EmptyDocumentFails ==
    (/\ pc = "done"
     /\ op = "analyze_structure"
     /\ args.split_mode \in RecognizedModes
     /\ args.text_data.total_pages = 0)
        => ret.status = "raised"

\* C19: in auto mode, for a document of N >= 1 pages, when the oracle raises
\* or answers without JSON, analyze_structure does not raise: it has asked
\* the oracle and returns the Structure of the heading analysis when that has
\* 2 sections or more, else the Structure of the analysis by meaning.
C19_OracleFailureRecovered ==
    (/\ AnalyzeDone("auto")
     /\ args.reply.kind \in {"raises", "no_json"}
     /\ args.text_data.total_pages >= 1)
        => LET h == _analyze_by_headings(args.text_data) IN
           /\ ret.status = "returned"
           /\ \E i \in 1..Len(called) : called[i] = "oracle"
           /\ ret.analysis_method \in {"by_headings", "by_meaning"}
           /\ ret = IF Len(h.sections) >= 2 THEN Returned(h)
                    ELSE Returned(_analyze_by_meaning(args.text_data))

\* the oracle has raised and the heading analysis has supplied the Structure
C19_Witness ==
    /\ AnalyzeDone("auto")
    /\ args.reply.kind = "raises"
    /\ args.text_data.total_pages >= 1
    /\ ret.status = "returned"
    /\ ret.analysis_method = "by_headings"
    /\ Len(ret.sections) >= 2
    /\ called = <<"_analyze_with_ai", "oracle", "_analyze_by_headings_improved",
                  "_analyze_by_headings">>

\* C20: for a document of N >= 1 pages and a recognized mode, ai_analysis
\* included, analyze_structure returns a Structure with at least one
\* section; it raises only for an empty document or an unknown mode.
C20_NoFailureOnValidInput ==
    (pc = "done" /\ op = "analyze_structure")
        => /\ (args.split_mode \in RecognizedModes /\ args.text_data.total_pages >= 1)
                => (ret.status = "returned" /\ Len(ret.sections) >= 1)
           /\ ret.status = "raised"
                => (args.text_data.total_pages = 0 \/ args.split_mode \notin RecognizedModes)

\* the analysis stages among the calls of analyze_structure, in call order
Stages(calls) ==
    SelectSeq(calls, LAMBDA c : c \in {"_analyze_with_ai", "_analyze_by_headings",
                                       "_analyze_by_meaning"})

\* C21: in auto mode the stages run in the order oracle-assisted,
\* by_headings, by_meaning; the oracle-assisted result is returned iff it was
\* produced without error and has 2 sections or more, otherwise the
\* by_headings result iff it has 2 sections or more, otherwise the by_meaning
\* result; no stage runs after an accepted one, and the returned Structure
\* has at least 2 sections.
C21_AutoFallbackChain ==
    AnalyzeDone("auto")
        => LET ai == _analyze_with_ai(args.text_data, args.reply)
               h == _analyze_by_headings(args.text_data)
               m == _analyze_by_meaning(args.text_data)
               aiOK == ai.status = "returned" /\ Len(ai.sections) >= 2
               hOK == Len(h.sections) >= 2
           IN  /\ ret.status = "returned"
               /\ Len(ret.sections) >= 2
               /\ ret.analysis_method = "ai_analysis" <=> aiOK
               /\ aiOK => (ret = ai /\ Stages(called) = <<"_analyze_with_ai">>)
               /\ (~aiOK /\ hOK)
                     => /\ ret = Returned(h)
                        /\ Stages(called) = <<"_analyze_with_ai", "_analyze_by_headings">>
               /\ (~aiOK /\ ~hOK)
                     => /\ ret = Returned(m)
                        /\ Stages(called) = <<"_analyze_with_ai", "_analyze_by_headings",
                                              "_analyze_by_meaning">>

\* the oracle's suggestion validated to one section and the heading analysis
\* found no heading: all three stages have run and by_meaning has answered
C21_Witness ==
    /\ AnalyzeDone("auto")
    /\ args.reply.kind = "structure"
    /\ Len(_analyze_with_ai(args.text_data, args.reply).sections) = 1
    /\ Stages(called) = <<"_analyze_with_ai", "_analyze_by_headings", "_analyze_by_meaning">>
    /\ ret.analysis_method = "by_meaning"
    /\ Len(ret.sections) >= 2

IsDigitAt(s, i) == i <= Len(s) /\ IsDigit(s[i])

\* the numbering prefix of the test lines: one digit per part
ThreePartPrefix(s) ==
    /\ IsDigitAt(s, 1) /\ Len(s) >= 5 /\ s[2] = 46 /\ IsDigitAt(s, 3) /\ s[4] = 46
    /\ IsDigitAt(s, 5)

TwoPartPrefix(s) == IsDigitAt(s, 1) /\ Len(s) >= 3 /\ s[2] = 46 /\ IsDigitAt(s, 3)

\* C22: _get_heading_level returns 3 for a line that starts with a
\* digit-dot-digit-dot-digit prefix, 2 for one that starts with a
\* digit-dot-digit prefix but no three-part one, and 1 for every other line.
C22_HeadingLevels ==
    (pc = "done" /\ op = "_get_heading_level")
        => ret.value = IF ThreePartPrefix(args.line) THEN 3
                       ELSE IF TwoPartPrefix(args.line) THEN 2
                       ELSE 1

\* the place of an eligible (page, line) pair in page order, then line order
RankIn(E, e) ==
    1 + Cardinality({f \in E : f[1] < e[1] \/ (f[1] = e[1] /\ f[2] < e[2])})

\* C23: the candidates of the heading scan are the (page, line) occurrences
\* the classifier accepts, one candidate per occurrence, in page order and
\* then line order; a repeated line yields a candidate per occurrence, and
\* the start_page values are non-decreasing.
C23_ScanOrder ==
    (/\ AnalyzeDone("by_headings")
     /\ Cardinality(Eligible(args.text_data.pages)) >= 2)
        => LET pages == args.text_data.pages
               E == Eligible(pages)
               out == ret.sections
           IN  /\ Len(out) = Cardinality(E)
               /\ SortedByStart(out)
               /\ \A e \in E :
                     /\ out[RankIn(E, e)].name = Strip(Split(pages[e[1]].text)[e[2]])
                     /\ out[RankIn(E, e)].start_page = pages[e[1]].page_number

\* the same heading twice on page 1 and once on page 3: three candidates
C23_Witness ==
    /\ AnalyzeDone("by_headings")
    /\ Eligible(args.text_data.pages) = {<<1, 1>>, <<1, 2>>, <<3, 2>>}
    /\ Len(ret.sections) = 3
    /\ \A i \in 1..3 : ret.sections[i].name = N_Kirispe
    /\ ret.sections[2].start_page = 1
    /\ ret.sections[3].start_page = 3

\* the exclusion rules, read on the trimmed line
FailsAnExclusionRule(s) ==
    \/ Len(s) < 3 \/ Len(s) > 30
    \/ \E i \in 1..(Len(s) - 1) : s[i] = 32 /\ s[i + 1] = 32
    \/ \E i \in 1..Len(s) : s[i] = 9
    \/ (Len(s) > 10 /\ \E i \in 1..Len(s) : IsDigit(s[i]))
    \/ IsLower(s[1])
    \/ \E i \in 1..Len(s) : s[i] \in {44, 58, 59, 63, 33, 34, 39, 171, 187}
    \/ (s[Len(s)] = 46 /\ ~(Len(s) >= 3 /\ s[Len(s) - 1] = 46 /\ s[Len(s) - 2] = 46))

\* C24: a line whose trimmed text ends in "." but not in "...", and more
\* generally a line that fails any exclusion rule, is rejected by
\* _is_heading whatever inclusion rule it satisfies.
C24_ExclusionDominates ==
    (pc = "done" /\ op = "_is_heading")
        => (FailsAnExclusionRule(Strip(args.line)) => ret.value = FALSE)

\* a numbered line with a structural keyword that ends in a full stop has
\* been rejected
C24_Witness ==
    /\ pc = "done"
    /\ op = "_is_heading"
    /\ Strip(args.line) = <<49, 46, 32>> \o N_Kirispe \o <<46>>
    /\ HeadingIncluded(Strip(args.line))
    /\ ret.value = FALSE

\* the place of the position i among the positions of I, in list order
PlaceIn(I, i) == 1 + Cardinality({j \in I : j < i})

\* where part k starts in the text that joins parts by a separator of
\* two characters
RECURSIVE OffsetOf(_, _)
OffsetOf(parts, k) ==
    IF k = 1 THEN 1 ELSE OffsetOf(parts, k - 1) + Len(parts[k - 1]) + 2

\* how many elements of the list parts equal x
Occurrences(parts, x) == Cardinality({k \in 1..Len(parts) : parts[k] = x})

ExtractDone == pc = "done" /\ op = "_extract_section_text"

\* C25: _extract_section_text takes the texts of exactly the pages with
\* start_page <= page_number <= end_page, each once, in the order the
\* document lists its pages, and joins them by a blank line; a page out of
\* the range gives nothing; and when the section lies in 1..N, it and the
\* sections of the pages before it and after it hold the text of every
\* page exactly once between them.
C25_SectionTextExtraction ==
    ExtractDone =>
        LET pages == args.text_data.pages
            s == args.section.start_page
            e == args.section.end_page
            N == args.text_data.total_pages
            I == {i \in 1..Len(pages) :
                      s <= pages[i].page_number /\ pages[i].page_number <= e}
            parts == frame.text_parts
            text == ret.value
        IN /\ ret.status = "returned"
           /\ Len(parts) = Cardinality(I)
           /\ \A i \in I : parts[PlaceIn(I, i)] = pages[i].text
           /\ I = {} => text = <<>>
           /\ I # {} =>
                /\ Len(text) = OffsetOf(parts, Len(parts)) + Len(parts[Len(parts)]) - 1
                /\ \A k \in 1..Len(parts) :
                       /\ SubSeq(text, OffsetOf(parts, k),
                                 OffsetOf(parts, k) + Len(parts[k]) - 1) = parts[k]
                       /\ k > 1 => SubSeq(text, OffsetOf(parts, k) - 2,
                                          OffsetOf(parts, k) - 1) = BlankLine
           /\ (1 <= s /\ s <= e /\ e <= N) =>
                LET all == TextParts(pages, 1, s - 1) \o parts \o TextParts(pages, e + 1, N)
                IN \A i \in 1..Len(pages) : Occurrences(all, pages[i].text) = 1

\* a section of two pages is cut out of a longer document whose list of
\* pages is not in the order of the page numbers
C25_Witness ==
    /\ ExtractDone
    /\ args.text_data = ReversedDoc(MaxSplitPages)
    /\ Len(frame.text_parts) = 2
    /\ ret.value = frame.text_parts[1] \o BlankLine \o frame.text_parts[2]
    /\ frame.text_parts[1] = <<96 + args.section.end_page>>

\* ceil(n / k) for k >= 1
CeilDiv(n, k) == (n + k - 1) \div k

\* C27: the loop of split_by_pages ends for every pages_per_section, and
\* with pages_per_section >= 1 it has built ceil(total_pages /
\* pages_per_section) sections when it ends.  The loop goes on while
\* current_page <= total_pages and nothing but the loop body changes
\* current_page, by the same amount in every iteration once end_page is
\* below total_pages: the loop ends if and only if every iteration leaves
\* current_page larger than it found it.
C27_SplitByPagesTerminates ==
    [][/\ (op = "split_by_pages" /\ pc = "loop" /\ pc' = "loop")
            => frame'.current_page > frame.current_page
       /\ (op = "split_by_pages" /\ pc = "loop" /\ pc' = "done"
           /\ args.pages_per_section >= 1)
            => Len(frame.sections) = CeilDiv(args.text_data.total_pages,
                                             args.pages_per_section)]_vars

GenerateDone == pc = "done" /\ op = "split_and_generate"

\* C28: split_and_generate returns one entry for each section whose
\* rendering succeeded and for no other, in the order of the structure,
\* with index the place of the section in the structure (from 1) and
\* pages_count = end_page - start_page + 1; the sections after a failure
\* are still rendered; the call raises exactly when there are no sections
\* or no rendering succeeded, and then metadata.json is not written.
C28_PartialGeneration ==
    GenerateDone =>
        LET sections == args.structure.sections
            ok == {i \in 1..Len(sections) : args.renders[i]}
            dir == output_files[args.book_id]
        IN /\ ret.status = "raised" <=> (sections = <<>> \/ ok = {})
           /\ ret.status = "raised" => (dir.exists /\ ~dir.metadata.exists)
           /\ dir.pdfs = ok
           /\ ret.status = "returned" =>
                /\ Len(ret.value) = Cardinality(ok)
                /\ \A i \in ok :
                       LET entry == ret.value[PlaceIn(ok, i)]
                       IN /\ entry.index = i
                          /\ entry.title = sections[i].name
                          /\ entry.start_page = sections[i].start_page
                          /\ entry.end_page = sections[i].end_page
                          /\ entry.pages_count =
                                 sections[i].end_page - sections[i].start_page + 1
                /\ dir.metadata.exists
                /\ dir.metadata.content.generated_files = ret.value

\* a rendering fails and the renderings of two later sections succeed
C28_Witness ==
    /\ GenerateDone
    /\ args.renders = <<FALSE, TRUE, TRUE>>
    /\ ret.status = "returned"
    /\ Len(ret.value) = 2
    /\ ret.value[1].index = 2

\* every rendering fails: the call raises and writes no metadata file
C28_AllFail ==
    /\ GenerateDone
    /\ args.renders = <<FALSE, FALSE>>
    /\ ret.status = "raised"

ValidateCustomDone == pc = "done" /\ op = "_validate_custom_sections"

\* the number a page value stands for, when it stands for one
IsNumber(v) == PyInt(v).ok
NumberOf(v) == PyInt(v).value

\* C30: _validate_custom_sections returns, in input order, exactly the
\* sections that have name, start_page and end_page with
\* 1 <= start_page <= end_page <= total_pages, their page range unchanged;
\* every other section is dropped and the call does not fail for it;
\* nothing is done about overlaps or uncovered pages.
C30_CustomValidation ==
    ValidateCustomDone =>
        LET sections == args.sections
            N == Get(args.text_data, "total_pages", 0)
            K == {i \in 1..Len(sections) :
                      /\ {"name", "start_page", "end_page"} \subseteq DOMAIN sections[i]
                      /\ IsNumber(sections[i].start_page)
                      /\ IsNumber(sections[i].end_page)
                      /\ 1 <= NumberOf(sections[i].start_page)
                      /\ NumberOf(sections[i].start_page) <= NumberOf(sections[i].end_page)
                      /\ NumberOf(sections[i].end_page) <= N}
        IN /\ ret.status = "returned"
           /\ Len(ret.value) = Cardinality(K)
           /\ \A i \in K :
                  LET kept == ret.value[PlaceIn(K, i)]
                  IN /\ kept.name = sections[i].name
                     /\ kept.start_page = NumberOf(sections[i].start_page)
                     /\ kept.end_page = NumberOf(sections[i].end_page)

\* what does hold: the claim for the calls in which no page value is a
\* str that is no number
C30_NumericPages ==
    (ValidateCustomDone
     /\ \A i \in 1..Len(args.sections) : ~CustomRaises(args.sections[i]))
        => /\ ret.status = "returned"
           /\ Len(ret.value) =
                  Cardinality({i \in 1..Len(args.sections) :
                                   CustomKept(args.sections[i],
                                              Get(args.text_data, "total_pages", 0))})

\* two overlapping sections are both kept
C30_Overlap ==
    /\ ValidateCustomDone
    /\ ret.status = "returned"
    /\ Len(ret.value) = 2
    /\ ret.value[2].start_page <= ret.value[1].end_page
    /\ ret.value[1].start_page <= ret.value[2].end_page

\* the analysis requests of book b
AnalysesOf(b) == {i \in 1..MaxRequests : reqs[i].kind = "analyze" /\ reqs[i].book_id = b}

\* the Structure the analyser produces for the Document of book b in
\* mode m when nothing else runs
AloneTable ==
    [b \in BookIds, m \in {"by_headings", "by_meaning"} |->
        LET r == analyze_structure(UploadedDoc(b), m, NoReply)
        IN [total_pages |-> r.total_pages, sections |-> r.sections,
            analysis_method |-> r.analysis_method]]

\* the Structure the analysis of request i produces when it runs alone
Alone(i) == AloneTable[reqs[i].book_id, reqs[i].split_mode]

C29_NotFound ==
    \A i \in 1..MaxRequests :
        (op = "server" /\ reqs[i].pc = "answered" /\ ~reqs[i].found) =>
            /\ reqs[i].status = 404
            /\ output_files[reqs[i].book_id].exists
                   => \E j \in 1..MaxRequests : j # i /\ reqs[j].kind = "generate"
                          /\ reqs[j].book_id = reqs[i].book_id /\ reqs[j].found
            /\ (reqs[i].kind = "analyze" => ~structure_files[reqs[i].book_id].exists)

\* what does hold: such a request is answered with an error and writes
\* no file
C29_NothingWritten ==
    \A i \in 1..MaxRequests :
        (op = "server" /\ reqs[i].pc = "answered" /\ ~reqs[i].found) =>
            /\ reqs[i].status = 500
            /\ output_files[reqs[i].book_id].exists
                   => \E j \in 1..MaxRequests : j # i /\ reqs[j].kind = "generate"
                          /\ reqs[j].book_id = reqs[i].book_id /\ reqs[j].found
            /\ (reqs[i].kind = "analyze" => ~structure_files[reqs[i].book_id].exists)

====
